---- MODULE Spec2Model ----
(***************************************************************************)
(* Procedural world generation, spawn finding, grid collision and DDA      *)
(* raycasting of the DOOM_ProceduralEngine variants (main.cpp,             *)
(* main_topdown_backup.cpp, main_complete.cpp, main_doom_fixed.cpp,        *)
(* main_reference.cpp).                                                    *)
(***************************************************************************)
EXTENDS Integers, Sequences, FiniteSets, TLC

VARIABLES
    \* ---- top-down overworld (main.cpp / main_topdown_backup.cpp) ----
    grid,        \* grid[y][x], the TileType of each cell
    gpc,         \* position in main: "seed", "smooth", "water", "spawn", "spawned"
    gk,          \* seed pass: row-major index of the next cell to draw noise for
    gi,          \* smoothing pass counter i of generateWorld
    treeDraws,   \* number of cells the seed pass has left as Trees so far
    grassDraws,  \* number of cells the seed pass has turned to Grass so far
    passStart,   \* the grid as it was when the last smoothing pass began
    spawnPos,    \* value returned by findValidSpawn (world units), or NoPos
    tileSize,    \* the tileSize argument of findValidSpawn
    \* ---- dungeon raycasters (main_complete / main_doom_fixed / main_reference) ----
    variant,     \* which program runs: "complete", "doom_fixed" or "reference"
    map,         \* worldMap[y][x]
    rooms,       \* the rooms vector of generateDungeon
    numRooms,    \* numRooms drawn by generateDungeon
    di,          \* counter i of the room placement loop
    ci,          \* counter i of the corridor loop
    dpc,         \* position in generateDungeon: "rooms", "connect", "done"
    \* ---- findEmptySpot and the start position in main ----
    spc,         \* "call", "loop", "true" / "false" (returned), "placed"
    attempts,    \* loop counter of findEmptySpot
    sampled,     \* number of cells findEmptySpot has drawn in this call
    sx,          \* the int& x of findEmptySpot (startX / ex of the caller)
    sy,          \* the int& y of findEmptySpot (startY / ey of the caller)
    found,       \* value returned by findEmptySpot
    playerStart, \* cell the Player is constructed in, NoPos before that
    \* ---- the player and the frame loop of the raycasters ----
    posX,        \* player.posX in 1/Scale of a cell
    posY,        \* player.posY in 1/Scale of a cell
    momX,        \* player.momX, 1/Scale of a cell per unit of deltaTime
    momY,        \* player.momY
    pdir,        \* <<player.dirX, player.dirY>>
    targetX,     \* targetX of updatePlayerMovement
    targetY,     \* targetY of updatePlayerMovement
    ppc,         \* position in the frame: "frame", "slide", "rotate"
    oobRead,     \* TRUE once worldMap has been indexed outside its extent
    \* ---- one ray of the DDA raycaster ----
    rayDirX,     \* rayDirX, an integer multiple of a common unit
    rayDirY,     \* rayDirY
    mapX,        \* cell the ray is in
    mapY,
    sideDistX,   \* sideDistX times Scale * |rayDirX| * |rayDirY|
    sideDistY,   \* sideDistY in the same unit
    side,        \* 0 after an X step, 1 after a Y step
    hit,         \* the loop flag
    rsteps,      \* iterations of the DDA loop made for this ray
    rpc,         \* "cast" before a ray starts, "dda" inside the loop, "hit"
                 \* after it, "drawn" once perpWallDist is computed
    perpWallDist, \* perpWallDist as <<numerator, denominator>>, in 1/Scale of a cell
    \* ---- the game loop of the top-down program ----
    tpx,         \* player.sprite position, world units
    tpy,
    tprev,       \* the player's position when the last frame began
    tvel,        \* player.velocity of the last frame
    facing,      \* player.facingDirection
    bul,         \* the bullet in flight: alive, position, direction
    bwrap,       \* tileCoords and wrappedX, wrappedY of the last terrain test
    drawRange,   \* startX, endX, startY, endY of the last tile drawing
    tframes,     \* frames played
    tpc,         \* "playing" while the game loop runs
    \* ---- one call of checkCollision ----
    qx,          \* the argument x, in 1/Scale of a cell
    qy,          \* the argument y
    qr,          \* the argument radius
    qres,        \* the value returned
    qpc,         \* "call" before the call, "done" after it
    \* ---- generateWorld called again with the seed of the first call ----
    seedNoise,   \* the values noiseDist(rng) yields for the seed, in call order
    firstGrid,   \* the grid the first call produced
    runs,        \* calls of generateWorld made
    \* ---- one call of countTreeNeighbors ----
    cntX,        \* the argument x
    cntY,        \* the argument y
    treeCount,   \* the value returned
    npc,         \* "call" before the call, "done" after it
    \* ---- main_complete: game state, player health, enemies ----
    gameState,   \* GameState of main_complete: Title, Playing, Victory, GameOver
    health,      \* player.health
    enemies,     \* the enemies vector: active flag and health of each
    projectiles, \* number of player projectiles in flight
    pickups,     \* active pickups that restore health
    struck,      \* player.health after each attack of the last state update
    windowOpen,  \* window.isOpen()
    mpc,         \* position in the loop: events, update, closed
    \* ---- top-down game: game state and player health ----
    tdGameState, \* GameState of the top-down game: Loading, Playing, GameOver
    tdHealth,    \* player.health
    tdEnemies,   \* enemies.size()
    invincible,  \* damageClock is below invincibilityDuration
    tdHit,       \* the collision loop of the last frame applied damage
    tdWindowOpen,\* window.isOpen()
    tdpc         \* position in the loop: events, update, closed

worldVars == <<grid, gpc, gk, gi, treeDraws, grassDraws, passStart, spawnPos, tileSize>>

dungeonVars == <<variant, map, rooms, numRooms, di, ci, dpc>>

spotVars == <<spc, attempts, sampled, sx, sy, found, playerStart>>

playVars == <<posX, posY, momX, momY, pdir, targetX, targetY, ppc, oobRead>>

rayVars ==
    <<rayDirX, rayDirY, mapX, mapY, sideDistX, sideDistY, side, hit, rsteps, rpc,
      perpWallDist>>

topVars == <<tpx, tpy, tprev, tvel, facing, bul, bwrap, drawRange, tframes, tpc>>

queryVars == <<qx, qy, qr, qres, qpc>>

rerunVars == <<seedNoise, firstGrid, runs>>

countVars == <<cntX, cntY, treeCount, npc>>

gameVars == <<gameState, health, enemies, projectiles, pickups, struck, windowOpen, mpc>>

advVars == <<tdGameState, tdHealth, tdEnemies, invincible, tdHit, tdWindowOpen, tdpc>>

vars == <<worldVars, dungeonVars, spotVars, playVars, rayVars, topVars, queryVars, rerunVars, countVars, gameVars, advVars>>

\* what the overworld program, generateDungeon and findEmptySpot leave alone
notWorld == <<dungeonVars, spotVars, playVars, rayVars, topVars, queryVars, rerunVars, countVars, gameVars, advVars>>
notDungeon == <<worldVars, spotVars, playVars, rayVars, topVars, queryVars, rerunVars, countVars, gameVars, advVars>>
notSpot == <<worldVars, dungeonVars, playVars, rayVars, topVars, queryVars, rerunVars, countVars, gameVars, advVars>>
notPlay == <<worldVars, dungeonVars, spotVars, rayVars, topVars, queryVars, rerunVars, countVars, gameVars, advVars>>
notRay == <<worldVars, dungeonVars, spotVars, playVars, topVars, queryVars, rerunVars, countVars, gameVars, advVars>>
notTop == <<dungeonVars, spotVars, playVars, rayVars, queryVars, rerunVars, countVars, gameVars, advVars>>
notAdv == <<worldVars, dungeonVars, spotVars, playVars, rayVars, topVars, queryVars, rerunVars, countVars, gameVars>>
notGame == <<worldVars, dungeonVars, spotVars, playVars, rayVars, topVars, queryVars, rerunVars, countVars, advVars>>
notCount == <<worldVars, dungeonVars, spotVars, playVars, rayVars, topVars, queryVars, rerunVars, gameVars, advVars>>
notRerun == <<worldVars, dungeonVars, spotVars, playVars, rayVars, topVars, queryVars, countVars, gameVars, advVars>>
notQuery == <<worldVars, dungeonVars, spotVars, playVars, rayVars, topVars, rerunVars, countVars, gameVars, advVars>>

----------------------------------------------------------------------------
\* Bounds of the model

\* worldWidth and worldHeight passed to generateWorld (200 x 200 in main)
WORLD_WIDTH == 4
WORLD_HEIGHT == 8
\* the noise draws of one seed pass put at most this many cells on the
\* minority side (Trees among Grass, or Grass among Trees)
MaxMinority == 2

\* MAP_WIDTH and MAP_HEIGHT of the raycasters (64 x 64 in the sources)
MAP_WIDTH == 10
MAP_HEIGHT == 7
\* range of roomSizeDist (5..12, 4..10 and 6..15 in the sources)
RoomSizeMin == 2
RoomSizeMax == 3
\* range of roomCountDist (20..30, 15..25 and 20..30 in the sources)
RoomCountMin == 2
RoomCountMax == 2

\* coordinates are held in 1/Scale of a cell
Scale == 10
\* largest momentum per axis, in 1/Scale of a cell per unit of deltaTime
MaxMom == 1
\* deltaTime of an ordinary frame and the factor of a stalled one
NormalDt == 3
\* most movement keys held down in one frame
MaxKeys == 2
\* ray directions have integer components up to this size
MaxRay == 2
\* size of the window and of the view, in world units (1280 x 720 in main)
WINDOW_WIDTH == 96
WINDOW_HEIGHT == 96
\* frames of the top-down game loop that are followed
MaxFrames == 3
StallFactor == 8

----------------------------------------------------------------------------
\* Program constants

initialTreeChance == 45
simulationSteps == 5
NoiseMax == 100
TILE_SIZE == 48
\* side of a tile of the sprite sheet before SPRITE_SCALE
BaseTileSize == 16
\* bound of the retry loop of findEmptySpot
SpotAttempts == 100
\* int startX = 5, startY = 5
DefaultStart == 5

NoPos == <<-1, -1>>

----------------------------------------------------------------------------
\* Top-down overworld: generateWorld, countTreeNeighbors, findValidSpawn

XS == 0 .. (WORLD_WIDTH - 1)
YS == 0 .. (WORLD_HEIGHT - 1)

\* grid.assign(worldHeight, vector(worldWidth, Trees))
AllTrees == [y \in YS |-> [x \in XS |-> "Trees"]]

\* one draw of noiseDist(rng)
noiseDist == 0 .. NoiseMax

patternNoise(x, y) == (x * 7 + y * 11) % 100

combinedNoise(noise, x, y) == (noise + patternNoise(x, y)) \div 2

\* tile a cell holds after the seed pass, given its noise draw
SeedTile(noise, x, y) ==
    IF combinedNoise(noise, x, y) > initialTreeChance THEN "Grass" ELSE "Trees"

\* the neighbour test without its bounds part: a position out of the grid
\* is passed over
IsTreeInside(g, nx, ny) ==
    /\ nx >= 0 /\ nx < WORLD_WIDTH /\ ny >= 0 /\ ny < WORLD_HEIGHT
    /\ g[ny][nx] = "Trees"

\* the neighbour test of countTreeNeighbors: out of the grid, or Trees
IsTreeOrOutside(g, nx, ny) ==
    \/ nx < 0 \/ nx >= WORLD_WIDTH \/ ny < 0 \/ ny >= WORLD_HEIGHT
    \/ g[ny][nx] = "Trees"

countTreeNeighbors(x, y, g) ==
    Cardinality({ n \in ((x - 1) .. (x + 1)) \X ((y - 1) .. (y + 1)) :
                    /\ ~(n[1] = x /\ n[2] = y)
                    /\ IsTreeOrOutside(g, n[1], n[2]) })

\* SmoothCell with the tie (exactly 4) going to Grass
SmoothCellTieGrass(src, next, x, y) ==
    LET neighbors == countTreeNeighbors(x, y, src)
    IN  IF neighbors > 4 THEN "Trees" ELSE "Grass"

\* SmoothCell with the tie (exactly 4) going to Trees
SmoothCellTieTrees(src, next, x, y) ==
    LET neighbors == countTreeNeighbors(x, y, src)
    IN  IF neighbors >= 4 THEN "Trees"
        ELSE IF neighbors < 4 THEN "Grass"
        ELSE next[y][x]

\* SmoothCell writing to a nextGrid that was not copied from grid: a cell
\* with exactly 4 solid neighbours keeps no tile
SmoothCellNoCopy(src, next, x, y) ==
    LET neighbors == countTreeNeighbors(x, y, src)
    IN  IF neighbors > 4 THEN "Trees"
        ELSE IF neighbors < 4 THEN "Grass"
        ELSE "Unset"

\* body of the inner loop of a smoothing pass: the value written to
\* nextGrid[y][x]; src is the grid the neighbours are counted in
SmoothCell(src, next, x, y) ==
    LET neighbors == countTreeNeighbors(x, y, src)
    IN  IF neighbors > 4 THEN "Trees"
        ELSE IF neighbors < 4 THEN "Grass"
        ELSE next[y][x]

\* the loops of a smoothing pass working in place: the neighbours are
\* counted in the grid being written
RECURSIVE SmoothFromInPlace(_, _, _)
SmoothFromInPlace(g, next, k) ==
    IF k >= WORLD_WIDTH * WORLD_HEIGHT THEN next
    ELSE LET x == k % WORLD_WIDTH
             y == k \div WORLD_WIDTH
         IN  SmoothFromInPlace(g, [next EXCEPT ![y][x] = SmoothCell(next, next, x, y)], k + 1)

\* the y/x loops of one smoothing pass from row-major cell k on: counts in
\* g, writes to next
RECURSIVE SmoothFrom(_, _, _)
SmoothFrom(g, next, k) ==
    IF k >= WORLD_WIDTH * WORLD_HEIGHT THEN next
    ELSE LET x == k % WORLD_WIDTH
             y == k \div WORLD_WIDTH
         IN  SmoothFrom(g, [next EXCEPT ![y][x] = SmoothCell(g, next, x, y)], k + 1)

\* nextGrid = grid; the loops; the value assigned back to grid
SmoothPass(g) == SmoothFrom(g, g, 0)

waterChance(x, y) == (x * 13 + y * 17) % 100

\* the water loops without the test for Grass
WaterPassAnyTile(g) ==
    [y \in YS |-> [x \in XS |->
        IF waterChance(x, y) < 3 THEN "Water" ELSE g[y][x]]]

WaterPass(g) ==
    [y \in YS |-> [x \in XS |->
        IF g[y][x] = "Grass" /\ waterChance(x, y) < 3 THEN "Water" ELSE g[y][x]]]

\* the value findValidSpawn returns for the cell (x, y) without the
\* tileSize / 2 offset
TileCorner(ts, x, y) == <<x * ts, y * ts>>

\* the value findValidSpawn returns for the cell (x, y): the centre of the
\* tile in world units
TileCentre(ts, x, y) == <<x * ts + ts \div 2, y * ts + ts \div 2>>

WorldInit ==
    /\ grid = AllTrees
    /\ gpc = "seed"
    /\ gk = 0
    /\ gi = 0
    /\ treeDraws = 0
    /\ grassDraws = 0
    /\ passStart = AllTrees
    /\ spawnPos = NoPos
    /\ tileSize = TILE_SIZE

\* the tiles the seed pass can leave in cell (x, y)
SeedOutcomes(x, y) == { SeedTile(noise, x, y) : noise \in noiseDist }

\* among the first k cells of the seed pass, those that even the lowest
\* draw turns to Grass
GrassWhateverDrawn(k) ==
    Cardinality({j \in 0 .. (k - 1) :
        SeedTile(0, j % WORLD_WIDTH, j \div WORLD_WIDTH) = "Grass"})

\* one iteration of the seed loops of generateWorld
SeedCell ==
    /\ gpc = "seed"
    /\ gk < WORLD_WIDTH * WORLD_HEIGHT
    /\ LET x == gk % WORLD_WIDTH
           y == gk \div WORLD_WIDTH
       IN  \E t \in SeedOutcomes(x, y) :
             /\ grid' = [grid EXCEPT ![y][x] = t]
             /\ treeDraws' = IF t = "Trees" THEN treeDraws + 1 ELSE treeDraws
             /\ grassDraws' = IF t = "Grass" THEN grassDraws + 1 ELSE grassDraws
             /\ \/ treeDraws' <= MaxMinority
                \/ grassDraws' - GrassWhateverDrawn(gk + 1) <= MaxMinority
    /\ gk' = gk + 1
    /\ UNCHANGED <<gpc, gi, passStart, spawnPos>>
    /\ UNCHANGED tileSize
    /\ UNCHANGED notWorld

SeedDone ==
    /\ gpc = "seed"
    /\ gk = WORLD_WIDTH * WORLD_HEIGHT
    /\ gpc' = "smooth"
    /\ UNCHANGED <<grid, gk, gi, treeDraws, grassDraws, passStart, spawnPos>>
    /\ UNCHANGED tileSize
    /\ UNCHANGED notWorld

\* the simulationSteps loop without ++i
SmoothStepNoCount ==
    /\ gpc = "smooth"
    /\ gi < simulationSteps
    /\ passStart' = grid
    /\ grid' = SmoothPass(grid)
    /\ UNCHANGED <<gpc, gk, gi, treeDraws, grassDraws, spawnPos>>
    /\ UNCHANGED tileSize
    /\ UNCHANGED notWorld

\* one iteration of the simulationSteps loop
SmoothStep ==
    /\ gpc = "smooth"
    /\ gi < simulationSteps
    /\ passStart' = grid
    /\ grid' = SmoothPass(grid)
    /\ gi' = gi + 1
    /\ UNCHANGED <<gpc, gk, treeDraws, grassDraws, spawnPos>>
    /\ UNCHANGED tileSize
    /\ UNCHANGED notWorld

\* the water loops, after which generateWorld returns
WaterStep ==
    /\ gpc = "smooth"
    /\ gi = simulationSteps
    /\ grid' = WaterPass(grid)
    /\ gpc' = "spawn"
    /\ UNCHANGED <<gk, gi, treeDraws, grassDraws, passStart, spawnPos>>
    /\ UNCHANGED tileSize
    /\ UNCHANGED notWorld

\* SpawnSample taking every tile but Water as walkable
SpawnSampleNotWater(x, y) ==
    /\ gpc = "spawn"
    /\ IF grid[y][x] # "Water"
       THEN /\ spawnPos' = TileCentre(tileSize, x, y)
            /\ gpc' = "spawned"
       ELSE UNCHANGED <<spawnPos, gpc>>
    /\ UNCHANGED <<grid, gk, gi, treeDraws, grassDraws, passStart>>
    /\ UNCHANGED tileSize
    /\ UNCHANGED notWorld

\* one iteration of the while(true) loop of findValidSpawn drawing (x, y)
SpawnSample(x, y) ==
    /\ gpc = "spawn"
    /\ IF grid[y][x] = "Grass"
       THEN /\ spawnPos' = TileCentre(tileSize, x, y)
            /\ gpc' = "spawned"
       ELSE UNCHANGED <<spawnPos, gpc>>
    /\ UNCHANGED <<grid, gk, gi, treeDraws, grassDraws, passStart>>
    /\ UNCHANGED tileSize
    /\ UNCHANGED notWorld

SpawnStep == \E x \in XS, y \in YS : SpawnSample(x, y)

\* grids findValidSpawn can be handed: one or two Grass cells among Trees
\* or among Water
SpawnGrids ==
    { [y \in YS |-> [x \in XS |-> IF <<x, y>> \in {c1, c2} THEN "Grass" ELSE b]] :
        c1 \in XS \X YS, c2 \in XS \X YS, b \in {"Trees", "Water"} }

\* findValidSpawn is entered with a grid and a tile size
SpawnCall ==
    /\ grid \in SpawnGrids
    /\ tileSize \in {BaseTileSize, TILE_SIZE}
    /\ gpc = "spawn"
    /\ gk = WORLD_WIDTH * WORLD_HEIGHT
    /\ gi = simulationSteps
    /\ treeDraws = 0
    /\ grassDraws = 0
    /\ passStart = grid
    /\ spawnPos = NoPos


----------------------------------------------------------------------------
\* Dungeon raycasters: generateDungeon

MXS == 0 .. (MAP_WIDTH - 1)
MYS == 0 .. (MAP_HEIGHT - 1)

Variants == {"complete", "doom_fixed", "reference"}

\* the fill loops at the head of generateDungeon
AllWall == [y \in MYS |-> [x \in MXS |-> "Wall"]]

roomCountDist == RoomCountMin .. RoomCountMax
roomSizeDist == RoomSizeMin .. RoomSizeMax

\* bound of the room placement loop: numRooms * 3, numRooms * 2, numRooms
RoomAttempts(v, n) ==
    IF v = "complete" THEN n * 3 ELSE IF v = "doom_fixed" THEN n * 2 ELSE n

\* centerX without the halving: the column right of the room
centerXNoHalf(r) == r.x + r.w

centerX(r) == r.x + r.w \div 2
centerY(r) == r.y + r.h \div 2

Min(a, b) == IF a < b THEN a ELSE b
Max(a, b) == IF a > b THEN a ELSE b

\* the overlap test of the placement loop against one placed room
Overlaps(v, x, y, w, h, room) ==
    IF v = "complete"
    THEN ~(x + w + 1 < room.x \/ x > room.x + room.w + 1 \/
           y + h + 1 < room.y \/ y > room.y + room.h + 1)
    ELSE IF v = "doom_fixed"
    THEN ~(x + w < room.x \/ x > room.x + room.w \/
           y + h < room.y \/ y > room.y + room.h)
    ELSE FALSE

\* the carving loops of a placed room
CarveRoom(m, x, y, w, h) ==
    [ry \in MYS |-> [rx \in MXS |->
        IF rx >= x /\ rx < x + w /\ ry >= y /\ ry < y + h THEN "Empty" ELSE m[ry][rx]]]

\* HorizontalCells with the loop running from x1 up to x2 without min/max
HorizontalCellsNoMinMax(v, prev, curr) ==
    LET x1 == centerX(prev)
        y1 == centerY(prev)
        x2 == centerX(curr)
    IN  IF v = "reference"
        THEN { <<x, y>> \in (x1 .. x2) \X ((y1 - 1) .. (y1 + 1)) :
                 \/ y = y1
                 \/ y = y1 - 1 /\ y1 > 0
                 \/ y = y1 + 1 /\ y1 < MAP_HEIGHT - 1 }
        ELSE { <<x, y>> \in (x1 .. x2) \X (y1 .. (y1 + 1)) :
                 /\ y1 >= 0 /\ y1 < MAP_HEIGHT /\ x >= 0 /\ x < MAP_WIDTH
                 /\ y = y1 \/ y1 + 1 < MAP_HEIGHT }

\* cells set Empty by the horizontal corridor loop from prev to curr
HorizontalCells(v, prev, curr) ==
    LET x1 == centerX(prev)
        y1 == centerY(prev)
        x2 == centerX(curr)
    IN  IF v = "reference"
        THEN { <<x, y>> \in (Min(x1, x2) .. Max(x1, x2)) \X ((y1 - 1) .. (y1 + 1)) :
                 \/ y = y1
                 \/ y = y1 - 1 /\ y1 > 0
                 \/ y = y1 + 1 /\ y1 < MAP_HEIGHT - 1 }
        ELSE { <<x, y>> \in (Min(x1, x2) .. Max(x1, x2)) \X (y1 .. (y1 + 1)) :
                 /\ y1 >= 0 /\ y1 < MAP_HEIGHT /\ x >= 0 /\ x < MAP_WIDTH
                 /\ y = y1 \/ y1 + 1 < MAP_HEIGHT }

\* cells set Empty by the vertical corridor loop from prev to curr
VerticalCells(v, prev, curr) ==
    LET y1 == centerY(prev)
        x2 == centerX(curr)
        y2 == centerY(curr)
    IN  IF v = "reference"
        THEN { <<x, y>> \in ((x2 - 1) .. (x2 + 1)) \X (Min(y1, y2) .. Max(y1, y2)) :
                 \/ x = x2
                 \/ x = x2 - 1 /\ x2 > 0
                 \/ x = x2 + 1 /\ x2 < MAP_WIDTH - 1 }
        ELSE { <<x, y>> \in (x2 .. (x2 + 1)) \X (Min(y1, y2) .. Max(y1, y2)) :
                 /\ y >= 0 /\ y < MAP_HEIGHT /\ x2 >= 0 /\ x2 < MAP_WIDTH
                 /\ x = x2 \/ x2 + 1 < MAP_WIDTH }

\* one iteration of the corridor loop
CarveCorridor(m, v, prev, curr) ==
    LET cells == HorizontalCells(v, prev, curr) \cup VerticalCells(v, prev, curr)
    IN  [y \in MYS |-> [x \in MXS |-> IF <<x, y>> \in cells THEN "Empty" ELSE m[y][x]]]

DungeonInit ==
    /\ variant \in Variants
    /\ map = AllWall
    /\ rooms = <<>>
    /\ numRooms \in roomCountDist
    /\ di = 0
    /\ ci = 1
    /\ dpc = "rooms"

\* one iteration of the room placement loop
PlaceRoom ==
    /\ dpc = "rooms"
    /\ di < RoomAttempts(variant, numRooms)
    /\ \E w \in roomSizeDist, h \in roomSizeDist :
       \E x \in 2 .. (MAP_WIDTH - w - 2), y \in 2 .. (MAP_HEIGHT - h - 2) :
         IF \E k \in 1 .. Len(rooms) : Overlaps(variant, x, y, w, h, rooms[k])
         THEN /\ di' = di + 1
              /\ UNCHANGED <<map, rooms, dpc>>
         ELSE /\ rooms' = Append(rooms, [x |-> x, y |-> y, w |-> w, h |-> h])
              /\ map' = CarveRoom(map, x, y, w, h)
              /\ IF variant # "reference" /\ Len(rooms') >= numRooms
                 THEN dpc' = "connect" /\ di' = di
                 ELSE dpc' = dpc /\ di' = di + 1
    /\ UNCHANGED <<variant, numRooms, ci>>
    /\ UNCHANGED notDungeon

\* the room placement loop runs out of iterations
RoomsDone ==
    /\ dpc = "rooms"
    /\ di >= RoomAttempts(variant, numRooms)
    /\ dpc' = "connect"
    /\ UNCHANGED <<variant, map, rooms, numRooms, di, ci>>
    /\ UNCHANGED notDungeon

\* one iteration of the corridor loop (rooms[i-1] to rooms[i])
ConnectStep ==
    /\ dpc = "connect"
    /\ ci < Len(rooms)
    /\ map' = CarveCorridor(map, variant, rooms[ci], rooms[ci + 1])
    /\ ci' = ci + 1
    /\ UNCHANGED <<variant, rooms, numRooms, di, dpc>>
    /\ UNCHANGED notDungeon

\* the corridor loop ends and generateDungeon returns
ConnectDone ==
    /\ dpc = "connect"
    /\ ci >= Len(rooms)
    /\ dpc' = "done"
    /\ UNCHANGED <<variant, map, rooms, numRooms, di, ci>>
    /\ UNCHANGED notDungeon

----------------------------------------------------------------------------
\* findEmptySpot and the player's start position

\* room a placement iteration can draw
RoomChoices ==
    UNION { { [x |-> x, y |-> y, w |-> w, h |-> h] :
                x \in 2 .. (MAP_WIDTH - w - 2), y \in 2 .. (MAP_HEIGHT - h - 2) } :
            <<w, h>> \in roomSizeDist \X roomSizeDist }

\* the corridor loop of generateDungeon from iteration i on
RECURSIVE ConnectFrom(_, _, _, _)
ConnectFrom(m, v, rs, i) ==
    IF i >= Len(rs) THEN m
    ELSE ConnectFrom(CarveCorridor(m, v, rs[i], rs[i + 1]), v, rs, i + 1)

\* the map generateDungeon returns when it recorded the rooms rs
RECURSIVE CarveRooms(_, _, _)
CarveRooms(m, rs, i) ==
    IF i > Len(rs) THEN m
    ELSE CarveRooms(CarveRoom(m, rs[i].x, rs[i].y, rs[i].w, rs[i].h), rs, i + 1)

DungeonMap(v, rs) == ConnectFrom(CarveRooms(AllWall, rs, 1), v, rs, 1)

\* generateDungeon has returned with every draw after the first repeating
\* the first room: rejected as an overlap in main_complete and
\* main_doom_fixed, recorded again in main_reference
DungeonDone ==
    /\ variant \in Variants
    /\ numRooms \in roomCountDist
    /\ \E r \in RoomChoices :
         rooms = IF variant = "reference" THEN [i \in 1 .. numRooms |-> r] ELSE <<r>>
    /\ map = DungeonMap(variant, rooms)
    /\ di = RoomAttempts(variant, numRooms)
    /\ ci = Max(1, Len(rooms))
    /\ dpc = "done"

\* uniform_int_distribution for x and y in findEmptySpot
SpotXs(v) == IF v = "reference" THEN 1 .. (MAP_WIDTH - 2) ELSE 2 .. (MAP_WIDTH - 3)
SpotYs(v) == IF v = "reference" THEN 1 .. (MAP_HEIGHT - 2) ELSE 2 .. (MAP_HEIGHT - 3)

\* values an int declared without initialiser may hold
Indeterminate == {0, 1}

\* the loop condition of findEmptySpot with <= for <
SpotLoopCondInclusive(a) == a <= SpotAttempts

\* the loop condition of findEmptySpot
SpotLoopCond(a) == a < SpotAttempts

SpotInit ==
    /\ spc = "call"
    /\ attempts = 0
    /\ sampled = 0
    /\ sx = 0
    /\ sy = 0
    /\ found = FALSE
    /\ playerStart = NoPos

\* main up to the first call of findEmptySpot: main_doom_fixed and
\* main_reference pass startX, startY; main_complete has constructed the
\* Player at the centre of rooms[0] and passes ex, ey
SpotCall ==
    /\ spc = "call"
    /\ IF variant = "doom_fixed"
       THEN sx' = DefaultStart /\ sy' = DefaultStart
       ELSE sx' \in Indeterminate /\ sy' \in Indeterminate
    /\ playerStart' = IF variant = "complete" /\ rooms # <<>>
                      THEN <<centerX(rooms[1]), centerY(rooms[1])>>
                      ELSE IF variant = "complete"
                      THEN <<DefaultStart, DefaultStart>>
                      ELSE playerStart
    /\ attempts' = 0
    /\ sampled' = 0
    /\ spc' = "loop"
    /\ UNCHANGED found
    /\ UNCHANGED notSpot

\* one iteration of the loop of findEmptySpot
SpotSample ==
    /\ spc = "loop"
    /\ SpotLoopCond(attempts)
    /\ \E x \in SpotXs(variant), y \in SpotYs(variant) :
         /\ sx' = x
         /\ sy' = y
         /\ IF map[y][x] = "Empty"
            THEN spc' = "true" /\ found' = TRUE /\ attempts' = attempts
            ELSE spc' = "loop" /\ found' = found /\ attempts' = attempts + 1
    /\ sampled' = sampled + 1
    /\ UNCHANGED playerStart
    /\ UNCHANGED notSpot

\* the loop ends without a hit: return false
SpotFail ==
    /\ spc = "loop"
    /\ ~SpotLoopCond(attempts)
    /\ spc' = "false"
    /\ found' = FALSE
    /\ UNCHANGED <<attempts, sampled, sx, sy, playerStart>>
    /\ UNCHANGED notSpot

\* the caller after findEmptySpot returned: main_doom_fixed ignores the
\* result, main_reference falls back to the map centre, main_complete has
\* placed the player already
StartPlayer ==
    /\ spc \in {"true", "false"}
    /\ IF variant = "doom_fixed"
       THEN playerStart' = <<sx, sy>> /\ UNCHANGED <<sx, sy>>
       ELSE IF variant = "reference"
       THEN IF ~found
            THEN /\ sx' = MAP_WIDTH \div 2
                 /\ sy' = MAP_HEIGHT \div 2
                 /\ playerStart' = <<sx', sy'>>
            ELSE playerStart' = <<sx, sy>> /\ UNCHANGED <<sx, sy>>
       ELSE UNCHANGED <<playerStart, sx, sy>>
    /\ spc' = "placed"
    /\ UNCHANGED <<attempts, sampled, found>>
    /\ UNCHANGED notSpot

----------------------------------------------------------------------------
\* The player: checkCollision, tryMoveWithSlide and the movement code

\* generateDungeon has returned after drawing two rooms in turn, the first
\* in the top left corner of the placement range and the second in the
\* bottom right corner
DungeonTwoRooms ==
    /\ variant \in Variants
    /\ numRooms \in roomCountDist
    /\ \E r1, r2 \in RoomChoices :
         /\ r1.w = RoomSizeMin /\ r1.h = RoomSizeMin /\ r1.x = 2 /\ r1.y = 2
         /\ r2.w = RoomSizeMin /\ r2.h = RoomSizeMin
         /\ r2.x = MAP_WIDTH - r2.w - 2 /\ r2.y = MAP_HEIGHT - r2.h - 2
         /\ ~Overlaps(variant, r2.x, r2.y, r2.w, r2.h, r1)
         /\ rooms = IF variant = "reference"
                    THEN [i \in 1 .. numRooms |-> IF i % 2 = 1 THEN r1 ELSE r2]
                    ELSE <<r1, r2>>
    /\ map = DungeonMap(variant, rooms)
    /\ di = IF variant = "reference" \/ numRooms > 2
            THEN RoomAttempts(variant, numRooms) ELSE 1
    /\ ci = Len(rooms)
    /\ dpc = "done"

\* main has passed its findEmptySpot call and constructed the Player: the
\* draws either hit the cell (x, y) first or missed every time, ending on it
StartPlaced ==
    /\ spc = "placed"
    /\ \E y \in SpotYs(variant) :
         LET x == rooms[1].x
             hitCell == map[y][x] = "Empty"
         IN  /\ (hitCell \/ variant = "complete") => y = rooms[1].y
             /\ found = hitCell
             /\ attempts = (IF hitCell THEN 0 ELSE SpotAttempts)
             /\ sampled = (IF hitCell THEN 1 ELSE SpotAttempts)
             /\ sx = (IF variant = "reference" /\ ~hitCell THEN MAP_WIDTH \div 2 ELSE x)
             /\ sy = (IF variant = "reference" /\ ~hitCell THEN MAP_HEIGHT \div 2 ELSE y)
             /\ playerStart = (IF variant = "complete"
                               THEN <<centerX(rooms[1]), centerY(rooms[1])>>
                               ELSE <<sx, sy>>)

\* static_cast<int> of a coordinate: truncation toward zero
ToInt(v) == IF v >= 0 THEN v \div Scale ELSE -((-v) \div Scale)

\* PLAYER_RADIUS = 0.3
PLAYER_RADIUS == (3 * Scale) \div 10

\* the bounds test that precedes a lookup
InMap(x, y) == x >= 0 /\ x < MAP_WIDTH /\ y >= 0 /\ y < MAP_HEIGHT

\* a corner test that passes over a corner outside the map
CornerBlockedSkipOutside(m, cx, cy) ==
    LET cellX == ToInt(cx)
        cellY == ToInt(cy)
    IN  IF ~InMap(cellX, cellY) THEN FALSE ELSE m[cellY][cellX] = "Wall"

\* one iteration of the corner loop of checkCollision: does it return true
CornerBlocked(m, cx, cy) ==
    LET cellX == ToInt(cx)
        cellY == ToInt(cy)
    IN  IF ~InMap(cellX, cellY) THEN TRUE ELSE m[cellY][cellX] = "Wall"

\* checkCollision testing only its first corner (x - radius, y - radius)
checkCollisionFirstCorner(m, x, y, radius) ==
    CornerBlocked(m, x - radius, y - radius)

checkCollision(m, x, y, radius) ==
    \E dx \in {-radius, radius}, dy \in {-radius, radius} :
        CornerBlocked(m, x + dx, y + dy)

\* tryMoveWithSlide trying the Y-only move before the X-only move
tryMoveWithSlideYFirst(m, px, py, tx, ty) ==
    IF ~checkCollision(m, tx, ty, PLAYER_RADIUS) THEN <<tx, ty>>
    ELSE IF ~checkCollision(m, px, ty, PLAYER_RADIUS) THEN <<px, ty>>
    ELSE IF ~checkCollision(m, tx, py, PLAYER_RADIUS) THEN <<tx, py>>
    ELSE <<px, py>>

\* tryMoveWithSlide taking the Y-only move without testing it
tryMoveWithSlideUncheckedY(m, px, py, tx, ty) ==
    IF ~checkCollision(m, tx, ty, PLAYER_RADIUS) THEN <<tx, ty>>
    ELSE IF ~checkCollision(m, tx, py, PLAYER_RADIUS) THEN <<tx, py>>
    ELSE <<px, ty>>

\* the position tryMoveWithSlide leaves the player at
tryMoveWithSlide(m, px, py, tx, ty) ==
    IF ~checkCollision(m, tx, ty, PLAYER_RADIUS) THEN <<tx, ty>>
    ELSE IF ~checkCollision(m, tx, py, PLAYER_RADIUS) THEN <<tx, py>>
    ELSE IF ~checkCollision(m, px, ty, PLAYER_RADIUS) THEN <<px, ty>>
    ELSE <<px, py>>

\* momentum per axis after thrust and friction, deltaTime of a frame
MomRange == (-MaxMom) .. MaxMom
StallDt == StallFactor * NormalDt
DtChoices == {NormalDt, StallDt}

\* the rotation code of a frame: no turn, or a quarter turn either way
Rotations(d) == {d, <<d[2], -d[1]>>, <<-d[2], d[1]>>}

\* the keys of W, S, A, D that are down in a frame
KeySets == {ks \in SUBSET {"W", "S", "A", "D"} : Cardinality(ks) <= MaxKeys}

\* the camera plane of a direction, without its length 0.66
planeOf(d) == <<d[2], -d[1]>>

\* Player(startX + 0.5, startY + 0.5): dir (-1, 0), no momentum
PlayerInit ==
    /\ posX = playerStart[1] * Scale + Scale \div 2
    /\ posY = playerStart[2] * Scale + Scale \div 2
    /\ momX = 0 /\ momY = 0
    /\ pdir = <<-1, 0>>
    /\ targetX = posX /\ targetY = posY
    /\ ppc = "frame"
    /\ oobRead = FALSE

\* updatePlayerMovement up to the call of tryMoveWithSlide: keys and
\* friction set the momentum, the target is one deltaTime of it ahead
PlayerThrust ==
    /\ variant \in {"complete", "doom_fixed"}
    /\ ppc = "frame"
    /\ \E mx \in MomRange, my \in MomRange, dt \in DtChoices :
         /\ momX' = mx
         /\ momY' = my
         /\ targetX' = posX + mx * dt
         /\ targetY' = posY + my * dt
    /\ ppc' = "slide"
    /\ UNCHANGED <<posX, posY, pdir, oobRead>>
    /\ UNCHANGED notPlay

\* the call of tryMoveWithSlide
PlayerSlide ==
    /\ ppc = "slide"
    /\ LET pos == tryMoveWithSlide(map, posX, posY, targetX, targetY)
       IN  posX' = pos[1] /\ posY' = pos[2]
    /\ ppc' = "rotate"
    /\ UNCHANGED <<momX, momY, pdir, targetX, targetY, oobRead>>
    /\ UNCHANGED notPlay

\* the mouse and arrow key rotation that ends updatePlayerMovement
PlayerRotate ==
    /\ ppc = "rotate"
    /\ pdir' \in Rotations(pdir)
    /\ ppc' = "frame"
    /\ UNCHANGED <<posX, posY, momX, momY, targetX, targetY, oobRead>>
    /\ UNCHANGED notPlay

\* displacement of one key of main_reference for frameMove fm
RefDelta(key, d, fm) ==
    LET strafe == (66 * fm) \div 100
        pl == planeOf(d)
    IN  CASE key = "W" -> <<d[1] * fm, d[2] * fm>>
          [] key = "S" -> <<-(d[1] * fm), -(d[2] * fm)>>
          [] key = "A" -> <<-(pl[1] * strafe), -(pl[2] * strafe)>>
          [] key = "D" -> <<pl[1] * strafe, pl[2] * strafe>>

\* one key block of main_reference: worldMap[(int)newY][(int)newX] is read
\* without a bounds test; a read outside the vectors yields any value
RefMove(m, x, y, delta) ==
    LET newX == x + delta[1]
        newY == y + delta[2]
        moved == [x |-> newX, y |-> newY]
        stayed == [x |-> x, y |-> y]
    IN  IF ~InMap(ToInt(newX), ToInt(newY))
        THEN {moved @@ [oob |-> TRUE], stayed @@ [oob |-> TRUE]}
        ELSE IF m[ToInt(newY)][ToInt(newX)] = "Empty"
        THEN {moved @@ [oob |-> FALSE]}
        ELSE {stayed @@ [oob |-> FALSE]}

\* the key blocks W, S, A, D in turn
RECURSIVE RefKeys(_, _, _, _, _, _)
RefKeys(m, outs, keys, pressed, d, fm) ==
    IF keys = <<>> THEN outs
    ELSE LET k == Head(keys)
             next == IF k \in pressed
                     THEN UNION { IF o.oob THEN {o}
                                  ELSE RefMove(m, o.x, o.y, RefDelta(k, d, fm)) :
                                  o \in outs }
                     ELSE outs
         IN  RefKeys(m, next, Tail(keys), pressed, d, fm)

\* one frame of the movement code of main_reference
RefFrame ==
    /\ variant = "reference"
    /\ ppc = "frame"
    /\ ~oobRead
    /\ \E pressed \in KeySets, fm \in DtChoices :
         \E o \in RefKeys(map, {[x |-> posX, y |-> posY, oob |-> FALSE]},
                          <<"W", "S", "A", "D">>, pressed, pdir, fm) :
            /\ posX' = o.x
            /\ posY' = o.y
            /\ oobRead' = o.oob
    /\ pdir' \in Rotations(pdir)
    /\ UNCHANGED <<momX, momY, targetX, targetY, ppc>>
    /\ UNCHANGED notPlay

----------------------------------------------------------------------------
\* One ray of the DDA raycaster (renderRaycaster, and main of main_reference)

Abs(v) == IF v < 0 THEN -v ELSE v

\* rayDir = dir + plane * cameraX; dir and plane are perpendicular, so the
\* two components are never both zero
RayDirs == {rd \in ((-MaxRay) .. MaxRay) \X ((-MaxRay) .. MaxRay) : rd # <<0, 0>>}

\* fractional parts of the player's coordinates a ray is cast from
RayFracs == {0, PLAYER_RADIUS, Scale \div 2}
RayCoords(n) == {c * Scale + f : c \in 0 .. (n - 1), f \in RayFracs}

\* positions the player can have when a frame is rendered
RayPositions ==
    {p \in RayCoords(MAP_WIDTH) \X RayCoords(MAP_HEIGHT) :
        \/ p = <<playerStart[1] * Scale + Scale \div 2,
                 playerStart[2] * Scale + Scale \div 2>>
        \/ /\ variant = "reference"
           /\ map[ToInt(p[2])][ToInt(p[1])] = "Empty"
        \/ /\ variant # "reference"
           /\ ~checkCollision(map, p[1], p[2], PLAYER_RADIUS)}

\* stepX / stepY
StepOf(rd) == IF rd < 0 THEN -1 ELSE 1

\* the 1e30 that serves as deltaDist of a zero component, in the unit of
\* sideDist: above every side distance of a ray that is still inside the map
Infinite == (MAP_WIDTH + MAP_HEIGHT + 2) * Scale * MaxRay

\* |1 / rd| in units of 1 / (|rayDirX| * |rayDirY|)
DistWeight(rd, other) ==
    IF rd = 0 THEN Infinite ELSE IF other = 0 THEN 1 ELSE Abs(other)

deltaDist(rd, other) == Scale * DistWeight(rd, other)

\* the initial sideDist of an axis, p the player's coordinate on it
sideDistInit(p, rd, other) ==
    (IF rd < 0 THEN p - ToInt(p) * Scale ELSE (ToInt(p) + 1) * Scale - p)
        * DistWeight(rd, other)

\* a hit test that ends the loop on an Empty cell
RayHitOnEmpty(m, x, y) == IF ~InMap(x, y) THEN TRUE ELSE m[y][x] = "Empty"

\* the hit test of the DDA loop
RayHit(m, x, y) == IF ~InMap(x, y) THEN TRUE ELSE m[y][x] = "Wall"

\* the player stands somewhere and no ray has been cast yet
RayInit ==
    /\ \E p \in RayPositions : posX = p[1] /\ posY = p[2]
    /\ momX = 0 /\ momY = 0 /\ pdir = <<-1, 0>>
    /\ targetX = posX /\ targetY = posY
    /\ ppc = "frame" /\ oobRead = FALSE
    /\ rayDirX = 0 /\ rayDirY = 0 /\ mapX = 0 /\ mapY = 0 /\ sideDistX = 0
    /\ sideDistY = 0 /\ side = 0 /\ hit = FALSE /\ rsteps = 0 /\ rpc = "cast"
    /\ perpWallDist = <<0, 1>>

\* the body of the column loop up to the DDA loop
RayCast ==
    /\ rpc \in {"cast", "drawn"}
    /\ \E rd \in RayDirs :
         /\ rayDirX' = rd[1]
         /\ rayDirY' = rd[2]
         /\ sideDistX' = sideDistInit(posX, rd[1], rd[2])
         /\ sideDistY' = sideDistInit(posY, rd[2], rd[1])
    /\ mapX' = ToInt(posX)
    /\ mapY' = ToInt(posY)
    /\ side' = 0
    /\ hit' = FALSE
    /\ rsteps' = 0
    /\ rpc' = "dda"
    /\ perpWallDist' = <<0, 1>>
    /\ UNCHANGED notRay

\* one iteration of while (!hit) with the two values of side exchanged
RayStepSideSwapped ==
    /\ rpc = "dda"
    /\ ~hit
    /\ IF sideDistX < sideDistY
       THEN /\ sideDistX' = sideDistX + deltaDist(rayDirX, rayDirY)
            /\ mapX' = mapX + StepOf(rayDirX)
            /\ side' = 1
            /\ UNCHANGED <<sideDistY, mapY>>
       ELSE /\ sideDistY' = sideDistY + deltaDist(rayDirY, rayDirX)
            /\ mapY' = mapY + StepOf(rayDirY)
            /\ side' = 0
            /\ UNCHANGED <<sideDistX, mapX>>
    /\ hit' = RayHit(map, mapX', mapY')
    /\ rpc' = IF hit' THEN "hit" ELSE "dda"
    /\ rsteps' = rsteps + 1
    /\ UNCHANGED <<rayDirX, rayDirY, perpWallDist>>
    /\ UNCHANGED notRay

\* one iteration of while (!hit)
RayStep ==
    /\ rpc = "dda"
    /\ ~hit
    /\ IF sideDistX < sideDistY
       THEN /\ sideDistX' = sideDistX + deltaDist(rayDirX, rayDirY)
            /\ mapX' = mapX + StepOf(rayDirX)
            /\ side' = 0
            /\ UNCHANGED <<sideDistY, mapY>>
       ELSE /\ sideDistY' = sideDistY + deltaDist(rayDirY, rayDirX)
            /\ mapY' = mapY + StepOf(rayDirY)
            /\ side' = 1
            /\ UNCHANGED <<sideDistX, mapX>>
    /\ hit' = RayHit(map, mapX', mapY')
    /\ rpc' = IF hit' THEN "hit" ELSE "dda"
    /\ rsteps' = rsteps + 1
    /\ UNCHANGED <<rayDirX, rayDirY, perpWallDist>>
    /\ UNCHANGED notRay

\* (1 - step) / 2 left out
FaceOffsetNone(step) == 0

\* (1 - stepX) / 2: the near face of the cell is its far edge when the ray
\* steps down
FaceOffset(step) == (1 - step) \div 2

\* (mapX - player.posX + (1 - stepX) / 2) / rayDirX, as a fraction with a
\* positive denominator
perpByCell(cell, pos, rd) ==
    LET n == cell * Scale - pos + FaceOffset(StepOf(rd)) * Scale
    IN  IF rd < 0 THEN <<-n, -rd>> ELSE <<n, rd>>

\* if (perpWallDist < 0.1) perpWallDist = 0.1
ClampNear(d) == IF 10 * d[1] < Scale * d[2] THEN <<Scale, 10>> ELSE d

\* sideDistX - deltaDistX, as a fraction of the unit sideDist is kept in
perpBySideDist(sideDist, rd, other) ==
    <<sideDist - deltaDist(rd, other), Abs(rd) * DistWeight(rd, other)>>

\* the column loop after the DDA loop: perpWallDist
RayDistance ==
    /\ rpc = "hit"
    /\ perpWallDist' =
         IF variant = "reference"
         THEN IF side = 0 THEN perpBySideDist(sideDistX, rayDirX, rayDirY)
                          ELSE perpBySideDist(sideDistY, rayDirY, rayDirX)
         ELSE ClampNear(IF side = 0 THEN perpByCell(mapX, posX, rayDirX)
                                    ELSE perpByCell(mapY, posY, rayDirY))
    /\ rpc' = "drawn"
    /\ UNCHANGED <<rayDirX, rayDirY, mapX, mapY, sideDistX, sideDistY, side, hit, rsteps>>
    /\ UNCHANGED notRay

----------------------------------------------------------------------------
\* The game loop of the top-down program (main.cpp, main_topdown_backup.cpp)

\* the seed pass in which every noise draw is high enough for Grass
AllGrass == [y \in YS |-> [x \in XS |-> "Grass"]]

\* n iterations of the simulationSteps loop
RECURSIVE SmoothTimes(_, _)
SmoothTimes(g, n) ==
    IF n = 0 THEN g
    ELSE LET prev == SmoothTimes(g, n - 1)
         IN  \* comparing first makes the grid of the earlier passes a value
             IF prev = g THEN SmoothPass(g) ELSE SmoothPass(prev)

\* generateWorld from the end of the seed pass on
GenerateFrom(seeded) == WaterPass(SmoothTimes(seeded, simulationSteps))

\* a % n of C++: the result has the sign of a
CMod(a, n) == IF a >= 0 THEN a % n ELSE -((-a) % n)

\* conversion to int of a / n: truncation toward zero
TruncDiv(a, n) == IF a >= 0 THEN a \div n ELSE -((-a) \div n)

\* the wrapped index without the second reduction
wrappedNoShift(c, size) == CMod(c, size)

\* ((c % size) + size) % size
wrapped(c, size) == CMod(CMod(c, size) + size, size)

\* grid[wy][wx]; an index outside the vectors yields any value
TileRead(g, wx, wy) ==
    IF wx >= 0 /\ wx < WORLD_WIDTH /\ wy >= 0 /\ wy < WORLD_HEIGHT
    THEN {g[wy][wx]}
    ELSE {"Grass", "Trees", "Water"}

\* the terrain test of a bullet that clears the tile it hits
GridAfterBulletCleared(g, wx, wy) ==
    IF wx >= 0 /\ wx < WORLD_WIDTH /\ wy >= 0 /\ wy < WORLD_HEIGHT
    THEN [g EXCEPT ![wy][wx] = "Grass"] ELSE g

\* the grid after the terrain test of a bullet: the test only reads it
GridAfterBullet(g, wx, wy) == g

\* playerSpeed * dt and bulletSpeed * dt of a frame
FrameStep == TILE_SIZE \div 2
BulletStep == 2 * FrameStep

\* moveDir for the keys held: one direction key at most
TopKeys == {<<0, 0>>, <<1, 0>>, <<-1, 0>>, <<0, 1>>, <<0, -1>>}

NoBullet == [alive |-> FALSE, x |-> 0, y |-> 0, v |-> <<0, 0>>]

\* the visible tile range [start, end) of one axis; c the view centre,
\* size the view size
DrawStart(c, size) == TruncDiv(2 * c - size, 2 * TILE_SIZE) - 2
DrawEnd(c, size) == TruncDiv(2 * c + size, 2 * TILE_SIZE) + 4

\* resetGame after generateWorld ran with every draw high: the player is
\* put on the spawn tile
TopInit ==
    /\ grid = GenerateFrom(AllGrass)
    /\ passStart = SmoothTimes(AllGrass, simulationSteps - 1)
    /\ gpc = "spawned"
    /\ gk = WORLD_WIDTH * WORLD_HEIGHT
    /\ gi = simulationSteps
    /\ treeDraws = 0
    /\ grassDraws = WORLD_WIDTH * WORLD_HEIGHT
    /\ tileSize = TILE_SIZE
    /\ \E x \in XS, y \in YS :
         /\ grid[y][x] = "Grass"
         /\ spawnPos = TileCentre(TILE_SIZE, x, y)
    /\ tpx = spawnPos[1]
    /\ tpy = spawnPos[2]
    /\ tprev = spawnPos
    /\ tvel = <<0, 0>>
    /\ facing = <<0, -1>>
    /\ bul = NoBullet
    /\ bwrap = <<0, 0, 0, 0>>
    /\ drawRange = <<0, 0, 0, 0>>
    /\ tframes = 0
    /\ tpc = "playing"

\* one iteration of the game loop in GameState::Playing
TopFrame ==
    /\ tpc = "playing"
    /\ tframes < MaxFrames
    /\ \E key \in TopKeys, space \in BOOLEAN :
         LET nx == tpx + key[1] * FrameStep
             ny == tpy + key[2] * FrameStep
             face == IF key # <<0, 0>> THEN key ELSE facing
             shot == IF space /\ ~bul.alive
                     THEN [alive |-> TRUE, x |-> nx, y |-> ny, v |-> face]
                     ELSE bul
             bx == shot.x + shot.v[1] * BulletStep
             by == shot.y + shot.v[2] * BulletStep
             tileX == TruncDiv(bx, TILE_SIZE)
             tileY == TruncDiv(by, TILE_SIZE)
             wrappedX == wrapped(tileX, WORLD_WIDTH)
             wrappedY == wrapped(tileY, WORLD_HEIGHT)
         IN  /\ tvel' = key
             /\ tprev' = <<tpx, tpy>>
             /\ tpx' = nx
             /\ tpy' = ny
             /\ facing' = face
             /\ IF shot.alive
                THEN /\ bwrap' = <<tileX, tileY, wrappedX, wrappedY>>
                     /\ grid' = GridAfterBullet(grid, wrappedX, wrappedY)
                     /\ \E t \in TileRead(grid, wrappedX, wrappedY) :
                          bul' = IF t # "Grass" THEN NoBullet
                                 ELSE [shot EXCEPT !.x = bx, !.y = by]
                ELSE UNCHANGED <<bwrap, grid, bul>>
             /\ drawRange' = <<DrawStart(nx, WINDOW_WIDTH), DrawEnd(nx, WINDOW_WIDTH),
                               DrawStart(ny, WINDOW_HEIGHT), DrawEnd(ny, WINDOW_HEIGHT)>>
    /\ tframes' = tframes + 1
    /\ UNCHANGED <<gpc, gk, gi, treeDraws, grassDraws, passStart, spawnPos, tileSize, tpc>>
    /\ UNCHANGED notTop

----------------------------------------------------------------------------
\* checkCollision as a function of its arguments

\* the radius the enemy movement passes: 0.2
ENEMY_RADIUS == (2 * Scale) \div 10

\* the radii checkCollision is called with
Radii == {PLAYER_RADIUS, ENEMY_RADIUS}

\* a caller is about to pass a point of the map and one of the radii
QueryInit ==
    /\ qx \in 0 .. (MAP_WIDTH * Scale)
    /\ qy \in 0 .. (MAP_HEIGHT * Scale)
    /\ qr \in Radii
    /\ qres = FALSE
    /\ qpc = "call"

CollisionQuery ==
    /\ qpc = "call"
    /\ qres' = checkCollision(map, qx, qy, qr)
    /\ qpc' = "done"
    /\ UNCHANGED <<qx, qy, qr>>
    /\ UNCHANGED notQuery

----------------------------------------------------------------------------
\* generateWorld as a function of its arguments and of the seed

\* calls of generateWorld made with one seed
MaxRuns == 2

\* values of a noise draw that are told apart: the lowest, the middle and
\* the highest
NoiseLevels == {0, NoiseMax \div 2, NoiseMax}

CellCount == WORLD_WIDTH * WORLD_HEIGHT

\* the sets of at most n cell indices
RECURSIVE SmallSets(_)
SmallSets(n) ==
    IF n = 0 THEN {{}}
    ELSE LET less == SmallSets(n - 1)
         IN  less \cup {S \cup {k} : S \in less, k \in 1 .. CellCount}

\* the draws a seed yields: one level for all cells but at most MaxMinority,
\* which draw another level
Seeds ==
    {[k \in 1 .. CellCount |-> IF k \in D THEN other ELSE base] :
        base \in NoiseLevels, other \in NoiseLevels, D \in SmallSets(MaxMinority)}

\* generateWorld without grid.assign
AssignKeep(g) == g

\* grid.assign(worldHeight, std::vector<TileType>(worldWidth, Trees))
Assign(g) == AllTrees

\* the seed loops: a cell is written only when its combined noise is high
SeedPass(g, noise) ==
    [y \in YS |-> [x \in XS |->
        IF combinedNoise(noise[y * WORLD_WIDTH + x + 1], x, y) > initialTreeChance
        THEN "Grass" ELSE g[y][x]]]

RerunInit ==
    /\ seedNoise \in Seeds
    /\ firstGrid = AllTrees
    /\ runs = 0

\* one call of generateWorld(worldWidth, worldHeight, grid) under the seed
GenerateCall ==
    /\ runs < MaxRuns
    /\ LET seeded == SeedPass(Assign(grid), seedNoise)
           result == GenerateFrom(seeded)
       IN  /\ grid' = result
           /\ passStart' = SmoothTimes(seeded, simulationSteps - 1)
           /\ grassDraws' = Cardinality({c \in XS \X YS : seeded[c[2]][c[1]] = "Grass"})
           /\ treeDraws' = CellCount - grassDraws'
           /\ firstGrid' = IF runs = 0 THEN result ELSE firstGrid
    /\ gpc' = "spawn"
    /\ gk' = CellCount
    /\ gi' = simulationSteps
    /\ runs' = runs + 1
    /\ UNCHANGED <<spawnPos, tileSize, seedNoise>>
    /\ UNCHANGED <<dungeonVars, spotVars, playVars, rayVars, topVars, queryVars, countVars, gameVars, advVars>>

----------------------------------------------------------------------------
\* countTreeNeighbors as a function of its arguments

\* grids countTreeNeighbors can be passed: those a seed pass leaves, and a
\* generated grid with Water in it
CountGrids ==
    {SeedPass(AllTrees, s) : s \in Seeds} \cup {GenerateFrom(AllGrass)}

CountInit ==
    /\ cntX \in XS
    /\ cntY \in YS
    /\ treeCount = 0
    /\ npc = "call"

CountCall ==
    /\ npc = "call"
    /\ treeCount' = countTreeNeighbors(cntX, cntY, grid)
    /\ npc' = "done"
    /\ UNCHANGED <<cntX, cntY>>
    /\ UNCHANGED notCount

----------------------------------------------------------------------------
\* The game state machine of main_complete.cpp: event handling and state
\* update of the game loop

\* enemies the spawn loop tries to place (15 in main)
MaxSpawn == 2
\* pickups placed that restore health (7 of the 10 pickups in main)
MaxPickups == 1
\* player projectiles in flight at one time that are followed
MaxShots == 2

\* Player(): health(100), maxHealth(100)
PlayerHealth == 100
\* player.health -= 10 of an enemy attack
AttackDamage == 10
\* Projectile(): damage(player ? 25 : 10)
ShotDamage == 25
\* what a HealthPack (25) and an Armor pickup (50 / 2) add to player.health
PickupHeal == 25

\* hp of the enemy type i % 4: Wolf, SmokeDemon, TophatOgre, RedDemon
EnemyHp(i) ==
    CASE i % 4 = 0 -> 50
      [] i % 4 = 1 -> 75
      [] i % 4 = 2 -> 100
      [] OTHER -> 150

\* the enemies vector after the spawn loop, from index i on: findEmptySpot
\* succeeded for the indices in S
RECURSIVE Spawned(_, _)
Spawned(i, S) ==
    IF i >= MaxSpawn THEN <<>>
    ELSE (IF i \in S THEN <<[active |-> TRUE, health |-> EnemyHp(i)]>> ELSE <<>>)
         \o Spawned(i + 1, S)

\* main up to the game loop
GameInit ==
    /\ gameState = "Title"
    /\ health = PlayerHealth
    /\ \E S \in SUBSET (0 .. (MaxSpawn - 1)) : enemies = Spawned(0, S)
    /\ projectiles = 0
    /\ pickups \in 0 .. MaxPickups
    /\ struck = <<>>
    /\ windowOpen = TRUE
    /\ mpc = "events"

\* Enter in any state starts the game
OnEnterAnyState(gs) == "Playing"

\* Escape pressed: Playing goes back to Title (any other state closes the
\* window)
OnEscape(gs) == IF gs = "Playing" THEN "Title" ELSE gs

\* Enter pressed
OnEnter(gs) == IF gs = "Title" THEN "Playing" ELSE gs

\* left mouse button pressed
OnMouseLeft(gs) == IF gs = "Title" THEN "Playing" ELSE gs

GameEvents == {"Closed", "Escape", "Enter", "MouseLeft", "Other"}

\* one event polled by the event loop; canShoot: shootClock is past 0.3 s
\* and player.ammo > 0
GameEvent ==
    /\ mpc = "events"
    /\ \E ev \in GameEvents, canShoot \in BOOLEAN :
         /\ gameState' = CASE ev = "Escape" -> OnEscape(gameState)
                           [] ev = "Enter" -> OnEnter(gameState)
                           [] ev = "MouseLeft" -> OnMouseLeft(gameState)
                           [] OTHER -> gameState
         /\ windowOpen' = IF ev = "Closed" \/ (ev = "Escape" /\ gameState # "Playing")
                          THEN FALSE ELSE windowOpen
         /\ projectiles' = IF /\ ev = "MouseLeft"
                              /\ gameState = "Playing"
                              /\ canShoot
                              /\ projectiles < MaxShots
                           THEN projectiles + 1 ELSE projectiles
    /\ UNCHANGED <<health, enemies, pickups, struck, mpc>>
    /\ UNCHANGED notGame

\* pollEvent returns no event
EventsDone ==
    /\ mpc = "events"
    /\ mpc' = "update"
    /\ UNCHANGED <<gameState, health, enemies, projectiles, pickups, struck, windowOpen>>
    /\ UNCHANGED notGame

\* the victory test of the state update
allEnemiesDead(es) == \A k \in 1 .. Len(es) : ~es[k].active

\* the enemy loop from enemy k on: the active enemies in A are close enough
\* and their attackClock is past 1.5 s; h, gs, st are player.health,
\* gameState and the health values the attacks stored so far
RECURSIVE EnemyLoop(_, _, _, _, _, _)
EnemyLoop(k, es, A, h, gs, st) ==
    IF k > Len(es) THEN [health |-> h, gameState |-> gs, struck |-> st]
    ELSE IF es[k].active /\ k \in A
         THEN LET h2 == h - AttackDamage
              IN  EnemyLoop(k + 1, es, A, h2,
                            IF h2 <= 0 THEN "GameOver" ELSE gs, Append(st, h2))
         ELSE EnemyLoop(k + 1, es, A, h, gs, st)

\* the projectile loop from projectile j of n on; o[j] is what happens to
\* projectile j: it is within 0.5 of enemy o[j] >= 1, it hits a wall or is
\* past its lifetime (-1), or it flies on (0); left counts those kept
RECURSIVE ProjectileLoop(_, _, _, _, _)
ProjectileLoop(j, n, o, es, left) ==
    IF j > n THEN [enemies |-> es, projectiles |-> left]
    ELSE IF o[j] >= 1 /\ es[o[j]].active
         THEN LET hp == es[o[j]].health - ShotDamage
              IN  ProjectileLoop(j + 1, n, o,
                      [es EXCEPT ![o[j]] = [active |-> hp > 0, health |-> hp]],
                      left)
         ELSE IF o[j] = -1
              THEN ProjectileLoop(j + 1, n, o, es, left)
              ELSE ProjectileLoop(j + 1, n, o, es, left + 1)

\* the pickup loop: n health pickups are within reach
RECURSIVE Heal(_, _)
Heal(h, n) ==
    IF n = 0 THEN h ELSE Heal(Min(PlayerHealth, h + PickupHeal), n - 1)

\* the state update of a frame in GameState::Playing
UpdatePlaying ==
    /\ mpc = "update"
    /\ gameState = "Playing"
    /\ \E A \in SUBSET (1 .. Len(enemies)),
          o \in [1 .. projectiles -> -1 .. Len(enemies)],
          taken \in 0 .. pickups :
         LET won == IF allEnemiesDead(enemies) /\ Len(enemies) > 0
                    THEN "Victory" ELSE gameState
             att == EnemyLoop(1, enemies, A, health, won, <<>>)
             shot == ProjectileLoop(1, projectiles, o, enemies, 0)
         IN  /\ gameState' = att.gameState
             /\ struck' = att.struck
             /\ health' = Heal(att.health, taken)
             /\ enemies' = shot.enemies
             /\ projectiles' = shot.projectiles
             /\ pickups' = pickups - taken
    /\ mpc' = IF windowOpen THEN "events" ELSE "closed"
    /\ UNCHANGED windowOpen
    /\ UNCHANGED notGame

\* a frame in any other state: nothing is updated
UpdateSkipped ==
    /\ mpc = "update"
    /\ gameState # "Playing"
    /\ mpc' = IF windowOpen THEN "events" ELSE "closed"
    /\ UNCHANGED <<gameState, health, enemies, projectiles, pickups, struck, windowOpen>>
    /\ UNCHANGED notGame

----------------------------------------------------------------------------
\* The game state machine of the top-down game (main.cpp,
\* main_topdown_backup.cpp): Loading, Playing, GameOver and player.health

\* enemies alive at one time (15 in main.cpp, 20 in the backup)
maxEnemies == 3

\* player.health = 100 of the Player struct and of resetGame
StartHealth == 100
\* player.health -= 25 of a collision with an enemy
HitDamage == 25

\* the death test of a hit that lets health 0 live
IsDeadBelowZero(h) == h < 0

\* player.health -= 25
AfterHit(h) == h - HitDamage

\* if (player.health <= 0)
IsDead(h) == h <= 0

\* main up to the game loop: damageClock was just constructed
AdvInit ==
    /\ tdGameState = "Loading"
    /\ tdHealth = StartHealth
    /\ tdEnemies = 0
    /\ invincible = TRUE
    /\ tdHit = FALSE
    /\ tdWindowOpen = TRUE
    /\ tdpc = "events"

AdvEvents == {"Closed", "KeyPressed", "Other"}

\* one event polled by the event loop
AdvEvent ==
    /\ tdpc = "events"
    /\ \E ev \in AdvEvents :
         tdWindowOpen' = IF ev = "Closed" \/ (tdGameState = "GameOver" /\ ev = "KeyPressed")
                         THEN FALSE ELSE tdWindowOpen
    /\ UNCHANGED <<tdGameState, tdHealth, tdEnemies, invincible, tdHit, tdpc>>
    /\ UNCHANGED notAdv

\* pollEvent returns no event
AdvEventsDone ==
    /\ tdpc = "events"
    /\ tdpc' = "update"
    /\ UNCHANGED <<tdGameState, tdHealth, tdEnemies, invincible, tdHit, tdWindowOpen>>
    /\ UNCHANGED notAdv

\* the rest of a loop iteration: the Loading branch with resetGame, then
\* the Playing branch. loaded: loadingProgress reached 1; expired:
\* damageClock passed invincibilityDuration; spawn: enemySpawnClock passed
\* its cooldown; kills: enemies erased after bullet hits; touch: the
\* player's bounds intersect those of an enemy
AdvFrame ==
    /\ tdpc = "update"
    /\ \E loaded \in BOOLEAN, expired \in BOOLEAN, spawn \in BOOLEAN,
          touch \in BOOLEAN, kills \in 0 .. maxEnemies :
         LET resets == tdGameState = "Loading" /\ loaded
             gs1 == IF resets THEN "Playing" ELSE tdGameState
             h1 == IF resets THEN StartHealth ELSE tdHealth
             e1 == IF resets THEN 0 ELSE tdEnemies
             inv1 == IF resets THEN TRUE ELSE (invincible /\ ~expired)
             playing == gs1 = "Playing"
             e2 == IF spawn /\ ~resets /\ e1 < maxEnemies THEN e1 + 1 ELSE e1
             e3 == e2 - Min(kills, e2)
             hitNow == playing /\ ~inv1 /\ touch /\ e3 > 0
             h2 == IF hitNow THEN AfterHit(h1) ELSE h1
             dead == hitNow /\ IsDead(h2)
         IN  /\ tdGameState' = IF dead THEN "GameOver" ELSE gs1
             /\ tdHealth' = IF dead THEN 0 ELSE h2
             /\ tdEnemies' = IF playing THEN e3 ELSE e1
             /\ invincible' = IF hitNow THEN TRUE ELSE inv1
             /\ tdHit' = hitNow
    /\ tdpc' = IF tdWindowOpen THEN "events" ELSE "closed"
    /\ UNCHANGED tdWindowOpen
    /\ UNCHANGED notAdv

----------------------------------------------------------------------------
\* Specifications

SpotIdle ==
    /\ spc = "idle" /\ attempts = 0 /\ sampled = 0 /\ sx = 0 /\ sy = 0
    /\ found = FALSE /\ playerStart = NoPos

WorldIdle ==
    /\ grid = AllTrees /\ gpc = "idle" /\ gk = 0 /\ gi = 0 /\ treeDraws = 0
    /\ grassDraws = 0 /\ passStart = AllTrees /\ spawnPos = NoPos
    /\ tileSize = TILE_SIZE

DungeonIdle ==
    /\ variant = "none" /\ map = AllWall /\ rooms = <<>> /\ numRooms = 0
    /\ di = 0 /\ ci = 1 /\ dpc = "idle"

PlayIdle ==
    /\ posX = 0 /\ posY = 0 /\ momX = 0 /\ momY = 0 /\ pdir = <<0, 0>>
    /\ targetX = 0 /\ targetY = 0 /\ ppc = "idle" /\ oobRead = FALSE

RayIdle ==
    /\ rayDirX = 0 /\ rayDirY = 0 /\ mapX = 0 /\ mapY = 0 /\ sideDistX = 0
    /\ sideDistY = 0 /\ side = 0 /\ hit = FALSE /\ rsteps = 0 /\ rpc = "idle"
    /\ perpWallDist = <<0, 1>>

TopIdle ==
    /\ tpx = 0 /\ tpy = 0 /\ tprev = <<0, 0>> /\ tvel = <<0, 0>>
    /\ facing = <<0, 0>> /\ bul = NoBullet /\ bwrap = <<0, 0, 0, 0>>
    /\ drawRange = <<0, 0, 0, 0>> /\ tframes = 0 /\ tpc = "idle"

AdvIdle ==
    /\ tdGameState = "Loading" /\ tdHealth = 0 /\ tdEnemies = 0
    /\ invincible = FALSE /\ tdHit = FALSE /\ tdWindowOpen = FALSE /\ tdpc = "idle"

GameIdle ==
    /\ gameState = "Title" /\ health = 0 /\ enemies = <<>> /\ projectiles = 0
    /\ pickups = 0 /\ struck = <<>> /\ windowOpen = FALSE /\ mpc = "idle"

CountIdle ==
    /\ cntX = 0 /\ cntY = 0 /\ treeCount = 0 /\ npc = "idle"

RerunIdle ==
    /\ seedNoise = <<>> /\ firstGrid = AllTrees /\ runs = 0

QueryIdle ==
    /\ qx = 0 /\ qy = 0 /\ qr = 0 /\ qres = FALSE /\ qpc = "idle"

WorldNext == SeedCell \/ SeedDone \/ SmoothStep \/ WaterStep \/ SpawnStep

\* main.cpp from the call of generateWorld on
InitWorld == WorldInit /\ DungeonIdle /\ SpotIdle /\ PlayIdle /\ RayIdle /\ TopIdle /\ AdvIdle /\ GameIdle /\ CountIdle /\ RerunIdle /\ QueryIdle

SpecWorld == InitWorld /\ [][WorldNext]_vars

\* the uniform draws of findValidSpawn keep sampling every cell, so a draw
\* that can return is eventually made
SpecWorldFair ==
    /\ InitWorld
    /\ [][WorldNext]_vars
    /\ WF_vars(SpawnStep)

SpawnNext == SpawnStep

\* findValidSpawn as a function of its arguments
InitSpawn == SpawnCall /\ DungeonIdle /\ SpotIdle /\ PlayIdle /\ RayIdle /\ TopIdle /\ AdvIdle /\ GameIdle /\ CountIdle /\ RerunIdle /\ QueryIdle

SpecSpawn == InitSpawn /\ [][SpawnNext]_vars

TopNext == TopFrame

\* the top-down game loop from the first Playing frame on
InitTop == TopInit /\ DungeonIdle /\ SpotIdle /\ PlayIdle /\ RayIdle /\ AdvIdle /\ GameIdle /\ CountIdle /\ RerunIdle /\ QueryIdle

SpecTop == InitTop /\ [][TopNext]_vars

DungeonNext == PlaceRoom \/ RoomsDone \/ ConnectStep \/ ConnectDone

\* the raycasters from the call of generateDungeon on
InitDungeon == DungeonInit /\ WorldIdle /\ SpotIdle /\ PlayIdle /\ RayIdle /\ TopIdle /\ AdvIdle /\ GameIdle /\ CountIdle /\ RerunIdle /\ QueryIdle

SpecDungeon == InitDungeon /\ [][DungeonNext]_vars

SpotNext == SpotCall \/ SpotSample \/ SpotFail \/ StartPlayer

\* main after generateDungeon returned
InitSpot == DungeonDone /\ SpotInit /\ WorldIdle /\ PlayIdle /\ RayIdle /\ TopIdle /\ AdvIdle /\ GameIdle /\ CountIdle /\ RerunIdle /\ QueryIdle

SpecSpot == InitSpot /\ [][SpotNext]_vars

\* findEmptySpot called on a generated map or on a map without Empty cell
InitSpotAny ==
    /\ \/ DungeonDone
       \/ /\ variant \in Variants /\ map = AllWall /\ rooms = <<>> /\ numRooms = 0
          /\ di = 0 /\ ci = 1 /\ dpc = "done"
    /\ SpotInit /\ WorldIdle /\ PlayIdle /\ RayIdle /\ TopIdle /\ AdvIdle /\ GameIdle /\ CountIdle /\ RerunIdle /\ QueryIdle

SpecSpotAny == InitSpotAny /\ [][SpotNext]_vars

PlayNext == PlayerThrust \/ PlayerSlide \/ PlayerRotate \/ RefFrame

\* the frame loop of the raycasters once the Player is constructed
InitPlay == DungeonTwoRooms /\ StartPlaced /\ PlayerInit /\ WorldIdle /\ RayIdle /\ TopIdle /\ AdvIdle /\ GameIdle /\ CountIdle /\ RerunIdle /\ QueryIdle

SpecPlay == InitPlay /\ [][PlayNext]_vars

RayNext == RayCast \/ RayStep \/ RayDistance

\* the raycaster called with the player anywhere it can stand
InitRay == DungeonTwoRooms /\ StartPlaced /\ RayInit /\ WorldIdle /\ TopIdle /\ AdvIdle /\ GameIdle /\ CountIdle /\ RerunIdle /\ QueryIdle

SpecRay == InitRay /\ [][RayNext]_vars

\* while (!hit) keeps iterating until hit is set
SpecRayFair ==
    /\ InitRay
    /\ [][RayNext]_vars
    /\ WF_vars(RayStep)

LoopNext ==
    \/ TopFrame
    \/ PlayerThrust \/ PlayerSlide \/ PlayerRotate \/ RefFrame
    \/ RayCast \/ RayStep \/ RayDistance

\* a frame of the raycasters at the call of renderRaycaster: the movement
\* of the frame is over and the columns are cast from where the player is
RenderInit ==
    /\ \E p \in RayPositions : posX = p[1] /\ posY = p[2]
    /\ momX = 0 /\ momY = 0 /\ pdir = <<-1, 0>>
    /\ targetX = posX /\ targetY = posY
    /\ ppc = "render" /\ oobRead = FALSE
    /\ rayDirX = 0 /\ rayDirY = 0 /\ mapX = 0 /\ mapY = 0 /\ sideDistX = 0
    /\ sideDistY = 0 /\ side = 0 /\ hit = FALSE /\ rsteps = 0 /\ rpc = "cast"
    /\ perpWallDist = <<0, 1>>

\* the game loops of the top-down game and of the raycasters, each from
\* the state generation leaves
InitLoop ==
    \/ InitTop
    \/ InitPlay
    \/ DungeonTwoRooms /\ StartPlaced /\ RenderInit /\ WorldIdle /\ TopIdle /\ AdvIdle /\ GameIdle /\ CountIdle /\ RerunIdle /\ QueryIdle

SpecLoop == InitLoop /\ [][LoopNext]_vars

QueryNext == CollisionQuery

\* checkCollision called on a generated map of the programs that have it
InitQuery ==
    /\ DungeonTwoRooms /\ variant # "reference"
    /\ QueryInit /\ WorldIdle /\ SpotIdle /\ PlayIdle /\ RayIdle /\ TopIdle /\ AdvIdle /\ GameIdle /\ CountIdle /\ RerunIdle

SpecQuery == InitQuery /\ [][QueryNext]_vars

RerunNext == GenerateCall

\* main before generateWorld is called, the seed being any of Seeds
InitRerun ==
    /\ WorldInit /\ RerunInit
    /\ DungeonIdle /\ SpotIdle /\ PlayIdle /\ RayIdle /\ TopIdle /\ AdvIdle /\ GameIdle /\ CountIdle /\ QueryIdle

SpecRerun == InitRerun /\ [][RerunNext]_vars

GenNext == SeedCell \/ SeedDone \/ SmoothStep \/ WaterStep

\* generateWorld alone: its loops run on whenever they can
SpecGenFair ==
    /\ InitWorld
    /\ [][GenNext]_vars
    /\ WF_vars(GenNext)

GridsNext ==
    \/ SeedCell \/ SeedDone \/ SmoothStep \/ WaterStep
    \/ PlaceRoom \/ RoomsDone \/ ConnectStep \/ ConnectDone

\* either generator, from its call to its return
InitGrids == InitWorld \/ InitDungeon

SpecGrids == InitGrids /\ [][GridsNext]_vars

CountNext == CountCall

\* countTreeNeighbors called on a cell of a grid
InitCount ==
    /\ grid \in CountGrids
    /\ gpc = "smooth" /\ gk = WORLD_WIDTH * WORLD_HEIGHT /\ gi = 0
    /\ treeDraws = 0 /\ grassDraws = 0 /\ passStart = grid
    /\ spawnPos = NoPos /\ tileSize = TILE_SIZE
    /\ CountInit
    /\ DungeonIdle /\ SpotIdle /\ PlayIdle /\ RayIdle /\ TopIdle /\ AdvIdle /\ GameIdle /\ RerunIdle /\ QueryIdle

SpecCount == InitCount /\ [][CountNext]_vars

GameNext == GameEvent \/ EventsDone \/ UpdatePlaying \/ UpdateSkipped

\* main_complete from the first iteration of the game loop on
InitGame == GameInit /\ WorldIdle /\ DungeonIdle /\ SpotIdle /\ PlayIdle /\ RayIdle /\ TopIdle /\ AdvIdle /\ CountIdle /\ RerunIdle /\ QueryIdle

SpecGame == InitGame /\ [][GameNext]_vars

AdvNext == AdvEvent \/ AdvEventsDone \/ AdvFrame

\* the top-down game from the first iteration of the game loop on
InitAdv == AdvInit /\ WorldIdle /\ DungeonIdle /\ SpotIdle /\ PlayIdle /\ RayIdle /\ TopIdle /\ GameIdle /\ CountIdle /\ RerunIdle /\ QueryIdle

SpecAdv == InitAdv /\ [][AdvNext]_vars

----------------------------------------------------------------------------
\* Claims

HasGrass == \E y \in YS, x \in XS : grid[y][x] = "Grass"

\* C1: after each smoothing pass, a cell that had more than 4 solid
\* neighbours at the start of the pass is Trees, one that had fewer than 4 is
\* Grass, and one that had exactly 4 holds the value it had before the pass.
C1_SmoothingRule ==
    (gpc = "smooth" /\ gi >= 1) =>
        \A y \in YS, x \in XS :
            LET n == countTreeNeighbors(x, y, passStart)
            IN  /\ n > 4 => grid[y][x] = "Trees"
                /\ n < 4 => grid[y][x] = "Grass"
                /\ n = 4 => grid[y][x] = passStart[y][x]

\* a pass that turned a Grass cell to Trees and a Trees cell to Grass and
\* left a Grass cell and a Trees cell with exactly 4 solid neighbours alone
C1_Witness ==
    /\ gpc = "smooth" /\ gi >= 1
    /\ \E y \in YS, x \in XS :
          countTreeNeighbors(x, y, passStart) > 4 /\ passStart[y][x] = "Grass"
    /\ \E y \in YS, x \in XS :
          countTreeNeighbors(x, y, passStart) < 4 /\ passStart[y][x] = "Trees"
    /\ \E y \in YS, x \in XS :
          countTreeNeighbors(x, y, passStart) = 4 /\ passStart[y][x] = "Grass"
    /\ \E y \in YS, x \in XS :
          countTreeNeighbors(x, y, passStart) = 4 /\ passStart[y][x] = "Trees"

\* C2: under fair sampling findValidSpawn returns when the grid has a Grass
\* cell, and on a grid without a Grass cell it never returns.
C2_SpawnReturnsIffGrass ==
    /\ [](gpc = "spawn" /\ HasGrass => <>(gpc = "spawned"))
    /\ [](gpc = "spawn" /\ ~HasGrass => [](gpc # "spawned"))

\* findValidSpawn is looping on a generated grid that has no Grass cell
C2_Witness == gpc = "spawn" /\ ~HasGrass


\* cells of a room
RoomCells(r) == (r.x .. (r.x + r.w - 1)) \X (r.y .. (r.y + r.h - 1))

\* C6: after generateDungeon no two recorded rooms share a cell.
C6_RoomsDisjoint ==
    dpc = "done" =>
        \A i, j \in 1 .. Len(rooms) :
            i < j => RoomCells(rooms[i]) \cap RoomCells(rooms[j]) = {}

IsEmptyCell(c) ==
    /\ c[1] \in MXS /\ c[2] \in MYS
    /\ map[c[2]][c[1]] = "Empty"

Adjacent4(c) ==
    { <<c[1] - 1, c[2]>>, <<c[1] + 1, c[2]>>, <<c[1], c[2] - 1>>, <<c[1], c[2] + 1>> }

\* the Empty cells reachable from the frontier through 4-adjacent Empty cells
RECURSIVE Flood(_, _)
Flood(seen, frontier) ==
    IF frontier = {} THEN seen
    ELSE LET nxt == { c \in UNION { Adjacent4(f) : f \in frontier } :
                        IsEmptyCell(c) /\ c \notin seen }
         IN  Flood(seen \cup nxt, nxt)

ReachableFrom(c) == Flood({c}, {c})

\* C7: after generateDungeon, for consecutive rooms the row of the previous
\* centre between the two centre columns and the column of the current
\* centre between the two centre rows are Empty, and every room cell is
\* reachable from every other through 4-adjacent Empty cells.
C7_RoomsConnected ==
    (dpc = "done" /\ Len(rooms) >= 1) =>
        /\ \A i \in 2 .. Len(rooms) :
             LET x1 == centerX(rooms[i - 1])
                 y1 == centerY(rooms[i - 1])
                 x2 == centerX(rooms[i])
                 y2 == centerY(rooms[i])
             IN  /\ \A x \in Min(x1, x2) .. Max(x1, x2) : IsEmptyCell(<<x, y1>>)
                 /\ \A y \in Min(y1, y2) .. Max(y1, y2) : IsEmptyCell(<<x2, y>>)
        /\ LET reach == ReachableFrom(<<rooms[1].x, rooms[1].y>>)
           IN  \A i \in 1 .. Len(rooms) : RoomCells(rooms[i]) \subseteq reach

\* two rooms apart from each other, centres on different rows and columns,
\* the previous one to the right of the current one, joined by the corridor
C7_Witness ==
    /\ dpc = "done" /\ Len(rooms) >= 2
    /\ rooms[1].x > rooms[2].x + rooms[2].w + 1
    /\ centerY(rooms[1]) # centerY(rooms[2])
    /\ RoomCells(rooms[2]) \subseteq ReachableFrom(<<rooms[1].x, rooms[1].y>>)


\* the caller's fixed default start cell
DefaultCell ==
    IF variant = "doom_fixed" THEN <<DefaultStart, DefaultStart>>
    ELSE <<MAP_WIDTH \div 2, MAP_HEIGHT \div 2>>

\* C8: when findEmptySpot returned false while choosing the player start,
\* the player is placed at the caller's default cell ((5,5) in
\* main_doom_fixed, the map centre in main_reference).
C8_FallbackToDefault ==
    (spc = "placed" /\ ~found /\ variant \in {"doom_fixed", "reference"}) =>
        playerStart = DefaultCell

\* C9: findEmptySpot draws at most 100 cells; it has returned true only with
\* (x, y) on an in-range Empty cell, every draw that did not return was not
\* Empty, and it returns false only after 100 such draws.
C9_BoundedSearch ==
    /\ sampled <= SpotAttempts
    /\ spc = "true" =>
         /\ found
         /\ sx \in MXS /\ sy \in MYS
         /\ map[sy][sx] = "Empty"
    /\ (spc = "loop" /\ sampled > 0) => map[sy][sx] # "Empty"
    /\ spc = "false" =>
         /\ ~found
         /\ sampled = SpotAttempts
         /\ map[sy][sx] # "Empty"

\* findEmptySpot returned false on the all-Wall map after 100 draws
C9_Witness ==
    /\ spc = "false" /\ sampled = SpotAttempts
    /\ \A y \in MYS, x \in MXS : map[y][x] = "Wall"

\* the three candidates of tryMoveWithSlide in the order of the claim
SlideCandidates == <<<<targetX, targetY>>, <<targetX, posY>>, <<posX, targetY>>>>

FreeCandidates ==
    {i \in 1 .. 3 : ~checkCollision(map, SlideCandidates[i][1],
                                     SlideCandidates[i][2], PLAYER_RADIUS)}

\* C3: tryMoveWithSlide moves the player to the first candidate that does
\* not collide, in the order (targetX,targetY), (targetX,posY),
\* (posX,targetY), leaves the position alone when all three collide, and
\* never changes the momentum or the direction.
C3_SlideOrder ==
    [][ppc = "slide" =>
         /\ <<posX', posY'>> =
              (IF FreeCandidates = {} THEN <<posX, posY>>
               ELSE SlideCandidates[CHOOSE i \in FreeCandidates :
                                       \A j \in FreeCandidates : i <= j])
         /\ <<momX', momY', pdir'>> = <<momX, momY, pdir>>]_vars

\* tryMoveWithSlide has taken the X-only candidate: the full move and
\* the Y part of it were refused
C3_Witness ==
    /\ ppc = "rotate"
    /\ posX = targetX
    /\ posY # targetY
    /\ momX # 0

\* a corner lies outside [0,MAP_WIDTH) x [0,MAP_HEIGHT) or in a Wall cell
CornerOutsideOrWall(cx, cy) ==
    \/ cx < 0 \/ cx >= MAP_WIDTH * Scale
    \/ cy < 0 \/ cy >= MAP_HEIGHT * Scale
    \/ map[cy \div Scale][cx \div Scale] = "Wall"

SomeCornerOutsideOrWall(x, y, r) ==
    \/ CornerOutsideOrWall(x - r, y - r) \/ CornerOutsideOrWall(x + r, y - r)
    \/ CornerOutsideOrWall(x - r, y + r) \/ CornerOutsideOrWall(x + r, y + r)

\* C4: every call of checkCollision made by tryMoveWithSlide returns true
\* exactly when one of the four corners (x +- r, y +- r) lies outside the
\* map or in a Wall cell; a corner with a negative coordinate collides.
C4_CollisionIffCorner ==
    ppc = "slide" =>
        \A i \in 1 .. 3 :
            LET q == SlideCandidates[i]
            IN  /\ checkCollision(map, q[1], q[2], PLAYER_RADIUS)
                      <=> SomeCornerOutsideOrWall(q[1], q[2], PLAYER_RADIUS)
                /\ (q[1] - PLAYER_RADIUS < 0 \/ q[2] - PLAYER_RADIUS < 0)
                      => checkCollision(map, q[1], q[2], PLAYER_RADIUS)

\* checkCollision is called with a corner between -1 and 0
C4_Witness ==
    /\ ppc = "slide"
    /\ targetX - PLAYER_RADIUS < 0
    /\ targetX - PLAYER_RADIUS > -Scale
    /\ checkCollision(map, targetX, targetY, PLAYER_RADIUS)

\* C5: in no reachable state has the grid been indexed outside
\* [0,width) x [0,height) by the movement code.
C5_NoOutOfBoundsRead == oobRead = FALSE

\* C10: the DDA loop of every ray ends, whatever the player position
\* inside the grid and the ray direction (a zero component included): it
\* makes at most MAP_WIDTH + MAP_HEIGHT steps and ends on a cell that is a
\* Wall or out of bounds.
C10_RayTerminates ==
    /\ [](rpc = "dda" => <>(rpc = "hit"))
    /\ [](rpc = "hit" => (~InMap(mapX, mapY) \/ map[mapY][mapX] = "Wall"))
    /\ [](rsteps <= MAP_WIDTH + MAP_HEIGHT)

\* a ray with a zero X component has ended after several steps
C10_Witness ==
    /\ rpc = "hit"
    /\ rayDirX = 0
    /\ rsteps > 1
    /\ map[ToInt(posY)][ToInt(posX)] = "Empty"

OnlyGrassAt(x, y) ==
    \A yy \in YS, xx \in XS : (grid[yy][xx] = "Grass") <=> (xx = x /\ yy = y)

\* C11: whenever findValidSpawn has returned, its result is
\* (x*tileSize + tileSize/2, y*tileSize + tileSize/2) for a cell (x, y) of
\* the grid that holds Grass; when (3,3) is the only Grass cell and the
\* tile size is 16 the result is (56, 56).
C11_SpawnIsGrassCentre ==
    gpc = "spawned" =>
        /\ \E x \in XS, y \in YS :
              /\ grid[y][x] = "Grass"
              /\ spawnPos = <<x * tileSize + tileSize \div 2,
                              y * tileSize + tileSize \div 2>>
        /\ (OnlyGrassAt(3, 3) /\ tileSize = 16) => spawnPos = <<56, 56>>

\* findValidSpawn has returned on the grid whose only Grass cell is (3,3)
C11_Witness ==
    /\ gpc = "spawned"
    /\ OnlyGrassAt(3, 3)
    /\ tileSize = 16

WrapsIntoRange(c, size) ==
    /\ wrapped(c, size) \in 0 .. (size - 1)
    /\ wrapped(c + size, size) = wrapped(c, size)

\* C12: for every tile coordinate the bullet terrain test and the tile
\* drawing compute (negative, in range, or beyond the size), the wrapped
\* index lies in [0,size) and equals the wrapped index of c + size, so the
\* lookups stay inside the grid.
C12_WrappedInRange ==
    tpc = "playing" =>
        /\ bwrap[3] \in 0 .. (WORLD_WIDTH - 1)
        /\ bwrap[4] \in 0 .. (WORLD_HEIGHT - 1)
        /\ wrapped(bwrap[1] + WORLD_WIDTH, WORLD_WIDTH) = bwrap[3]
        /\ wrapped(bwrap[2] + WORLD_HEIGHT, WORLD_HEIGHT) = bwrap[4]
        /\ \A x \in drawRange[1] .. (drawRange[2] - 1) : WrapsIntoRange(x, WORLD_WIDTH)
        /\ \A y \in drawRange[3] .. (drawRange[4] - 1) : WrapsIntoRange(y, WORLD_HEIGHT)

\* a bullet left of the grid has been tested and tiles on both sides of
\* the grid have been drawn
C12_Witness ==
    /\ tpc = "playing"
    /\ bul.alive
    /\ bwrap[1] < 0
    /\ drawRange[1] < 0
    /\ drawRange[2] > WORLD_WIDTH

\* C13: once generation has finished, every step of a game loop (movement,
\* collision queries, bullet update, raycasting, drawing) leaves the
\* overworld grid and the dungeon map as they were.
C13_GridNeverWritten == [][grid' = grid /\ map' = map]_vars

\* the terrain test has just removed a bullet on a tile that is not Grass
C13_Witness ==
    /\ tpc = "playing"
    /\ tframes > 0
    /\ ~bul.alive
    /\ bwrap # <<0, 0, 0, 0>>
    /\ grid[bwrap[4]][bwrap[3]] # "Grass"

\* the tile under the point (px, py) is outside the grid or Trees
OnSolidTile(px, py) ==
    \/ px < 0 \/ px >= WORLD_WIDTH * TILE_SIZE
    \/ py < 0 \/ py >= WORLD_HEIGHT * TILE_SIZE
    \/ grid[py \div TILE_SIZE][px \div TILE_SIZE] = "Trees"

\* C14: in the top-down game a move that would put the centre of the
\* player's bounding box on a tile outside the grid or on a Trees tile is
\* blocked: the position after the frame is the position before it.
C14_BlockedMoveReverts ==
    ( /\ tpc = "playing"
      /\ tframes > 0
      /\ tvel # <<0, 0>>
      /\ OnSolidTile(tprev[1] + tvel[1] * FrameStep, tprev[2] + tvel[2] * FrameStep) )
    => <<tpx, tpy>> = tprev

\* the point (x, y) lies in the interior of a Wall cell of the map
StrictlyInsideWall(x, y) ==
    /\ x % Scale # 0
    /\ y % Scale # 0
    /\ InMap(ToInt(x), ToInt(y))
    /\ map[ToInt(y)][ToInt(x)] = "Wall"

\* C15: checkCollision returns true for every point strictly inside a Wall
\* cell, with each radius it is called with.
C15_WallInteriorBlocked ==
    (qpc = "done" /\ StrictlyInsideWall(qx, qy)) => qres

\* a point inside a Wall cell whose first corner lies over an Empty cell
C15_Witness ==
    /\ qpc = "done"
    /\ StrictlyInsideWall(qx, qy)
    /\ InMap(ToInt(qx - qr), ToInt(qy - qr))
    /\ map[ToInt(qy - qr)][ToInt(qx - qr)] = "Empty"
    /\ qres

\* C16: two calls of generateWorld with the same dimensions and the same
\* seed leave the same grid.
C16_SameSeedSameGrid == runs = MaxRuns => grid = firstGrid

\* the second call has returned a grid that holds Trees, Grass and Water
C16_Witness ==
    /\ runs = MaxRuns
    /\ \A t \in {"Trees", "Grass", "Water"} :
          \E y \in YS, x \in XS : grid[y][x] = t

\* C17: generateWorld returns, and when it does the seed pass has visited
\* every cell once, exactly simulationSteps (5) smoothing passes have run,
\* each started on the grid the one before left, and the water pass has run.
C17_GenerateTerminates ==
    /\ <>(gpc = "spawn")
    /\ [](gpc = "spawn" =>
            /\ gk = WORLD_WIDTH * WORLD_HEIGHT
            /\ gi = simulationSteps
            /\ grid = WaterPass(SmoothPass(passStart)))
    /\ [][gi' # gi => (gi' = gi + 1 /\ gk = WORLD_WIDTH * WORLD_HEIGHT /\ gk' = gk)]_vars

\* generateWorld has returned a grid its water pass wrote to
C17_Witness ==
    /\ gpc = "spawn"
    /\ gi = simulationSteps
    /\ \E y \in YS, x \in XS : grid[y][x] = "Water"

AxisDirs == {<<1, 0>>, <<-1, 0>>, <<0, 1>>, <<0, -1>>}

\* the cells from the player's cell on along the direction d, nearest first:
\* the k-th is k cells away
CellAlong(d, k) == <<ToInt(posX) + k * d[1], ToInt(posY) + k * d[2]>>

IsWallAlong(d, k) ==
    LET c == CellAlong(d, k)
    IN  InMap(c[1], c[2]) /\ map[c[2]][c[1]] = "Wall"

\* the first Wall cell along d is k cells away
FirstWallAt(d, k) ==
    /\ IsWallAlong(d, k)
    /\ \A j \in 1 .. (k - 1) : ~IsWallAlong(d, j)

\* distance from the player to the near face of the cell k cells away along
\* the axis direction d, in 1/Scale of a cell
NearFaceDistance(d, k) ==
    IF d[1] = 1 THEN (ToInt(posX) + k) * Scale - posX
    ELSE IF d[1] = -1 THEN posX - (ToInt(posX) - k + 1) * Scale
    ELSE IF d[2] = 1 THEN (ToInt(posY) + k) * Scale - posY
    ELSE posY - (ToInt(posY) - k + 1) * Scale

\* an axis-aligned ray has been cast from an Empty cell and its distance
\* computed
AxisRayDrawn ==
    /\ rpc = "drawn"
    /\ <<rayDirX, rayDirY>> \in AxisDirs
    /\ map[ToInt(posY)][ToInt(posX)] = "Empty"

\* C18: for a ray along an axis cast from an Empty cell, perpWallDist is the
\* distance from the player to the near face of the first Wall cell along
\* that axis.
C18_AxisRayDistance ==
    AxisRayDrawn =>
        \A k \in 1 .. (MAP_WIDTH + MAP_HEIGHT) :
            FirstWallAt(<<rayDirX, rayDirY>>, k) =>
                perpWallDist[1] = NearFaceDistance(<<rayDirX, rayDirY>>, k) * perpWallDist[2]

\* a ray cast down an axis has passed Empty cells before its Wall
C18_Witness ==
    /\ AxisRayDrawn
    /\ rayDirX = -1
    /\ rsteps > 1
    /\ \E k \in 2 .. MAP_WIDTH : FirstWallAt(<<rayDirX, rayDirY>>, k)
    /\ perpWallDist[1] > Scale

\* g has exactly the rows ys, each with exactly the cells xs, and every
\* cell holds one of the tiles
WellFormed(g, ys, xs, tiles) ==
    /\ DOMAIN g = ys
    /\ \A y \in ys :
          /\ DOMAIN g[y] = xs
          /\ \A x \in xs : g[y][x] \in tiles

\* C19: when generateWorld has returned the grid has height rows of width
\* cells, each Grass, Trees or Water; when generateDungeon has returned the
\* map has MAP_HEIGHT rows of MAP_WIDTH cells, each Empty or Wall.
C19_GridsWellFormed ==
    /\ gpc = "spawn" =>
          WellFormed(grid, 0 .. (WORLD_HEIGHT - 1), 0 .. (WORLD_WIDTH - 1),
                     {"Grass", "Trees", "Water"})
    /\ dpc = "done" =>
          WellFormed(map, 0 .. (MAP_HEIGHT - 1), 0 .. (MAP_WIDTH - 1),
                     {"Empty", "Wall"})

\* generateWorld has returned a grid in which a smoothing pass left a cell
\* with exactly 4 solid neighbours as it was
C19_Witness ==
    /\ gpc = "spawn"
    /\ \E y \in YS, x \in XS :
          /\ countTreeNeighbors(x, y, passStart) = 4
          /\ grid[y][x] = "Water"

\* the value a smoothing pass gives cell (x, y) when every neighbour is
\* counted in the grid g the pass started on
SnapshotValue(g, x, y) ==
    LET solid == Cardinality({n \in ((x - 1) .. (x + 1)) \X ((y - 1) .. (y + 1)) :
                     /\ n # <<x, y>>
                     /\ \/ n[1] \notin XS
                        \/ n[2] \notin YS
                        \/ g[n[2]][n[1]] = "Trees"})
    IN  IF solid > 4 THEN "Trees" ELSE IF solid < 4 THEN "Grass" ELSE g[y][x]

\* C20: a smoothing pass gives every cell the value computed from the grid
\* as it was when the pass began; what the pass has already written for
\* other cells plays no part.
C20_PassReadsSnapshot ==
    [][gi' # gi =>
        \A y \in YS, x \in XS : grid'[y][x] = SnapshotValue(grid, x, y)]_vars

\* a pass has ended on a grid that differs from what the same pass working
\* in place would have left
C20_Witness ==
    /\ gpc = "smooth"
    /\ gi > 0
    /\ grid # passStart
    /\ grid # SmoothFromInPlace(passStart, passStart, 0)

\* 1 if the position (x, y) is outside the grid or holds Trees, else 0
SolidAt(x, y) ==
    IF x < 0 \/ x > WORLD_WIDTH - 1 \/ y < 0 \/ y > WORLD_HEIGHT - 1 THEN 1
    ELSE IF grid[y][x] = "Trees" THEN 1
    ELSE 0

\* the solid positions among the 8 around (x, y)
SolidAround(x, y) ==
    SolidAt(x - 1, y - 1) + SolidAt(x, y - 1) + SolidAt(x + 1, y - 1)
    + SolidAt(x - 1, y) + SolidAt(x + 1, y)
    + SolidAt(x - 1, y + 1) + SolidAt(x, y + 1) + SolidAt(x + 1, y + 1)

\* C21: countTreeNeighbors(x, y) is the number of the 8 surrounding
\* positions that are outside the grid or hold Trees; the cell itself, Grass
\* and Water are not counted, and the result lies in 0..8.
C21_CountsSolidNeighbours ==
    npc = "done" =>
        /\ treeCount = SolidAround(cntX, cntY)
        /\ treeCount \in 0 .. 8

\* the count was taken at the edge of the grid, on a Trees cell, next to
\* Water and Grass
C21_Witness ==
    /\ npc = "done"
    /\ cntX = 0
    /\ grid[cntY][cntX] = "Trees"
    /\ \E y \in YS, x \in XS :
          /\ x - cntX \in -1 .. 1 /\ y - cntY \in -1 .. 1
          /\ grid[y][x] = "Water"
    /\ treeCount > 3
    /\ treeCount < 8

\* the Player was constructed at a position checkCollision accepts
StartedFree ==
    /\ variant # "reference"
    /\ ppc # "idle"
    /\ playerStart # NoPos
    /\ ~checkCollision(map, playerStart[1] * Scale + Scale \div 2,
                       playerStart[2] * Scale + Scale \div 2, PLAYER_RADIUS)

\* C22: a player that starts where checkCollision(pos, PLAYER_RADIUS) is
\* false is, after any number of tryMoveWithSlide calls with any targets,
\* still at a position where it is false.
C22_StaysFree ==
    StartedFree => ~checkCollision(map, posX, posY, PLAYER_RADIUS)

\* tryMoveWithSlide has refused the move and both slides of a player that
\* started free: the target and the two mixed positions all collide
C22_Witness ==
    /\ StartedFree
    /\ ppc = "rotate"
    /\ <<targetX, targetY>> # <<posX, posY>>
    /\ targetX # posX
    /\ targetY # posY
    /\ checkCollision(map, targetX, targetY, PLAYER_RADIUS)

\* the cell the ray is in ends the loop: out of bounds or a Wall
StopsRay(x, y) ==
    \/ x < 0 \/ x > MAP_WIDTH - 1 \/ y < 0 \/ y > MAP_HEIGHT - 1
    \/ map[y][x] = "Wall"

\* C23: while the DDA loop runs, every cell the ray has stepped into is in
\* bounds and not a Wall; the cell it exits on is out of bounds or a Wall,
\* hence the first such cell of the traversal; and side is 0 exactly when
\* the last step changed mapX and 1 exactly when it changed mapY.
C23_FirstHitAndSide ==
    /\ []((rpc = "dda" /\ rsteps > 0) => ~StopsRay(mapX, mapY))
    /\ []((rpc = "hit") => (hit /\ StopsRay(mapX, mapY)))
    /\ [][rsteps' = rsteps + 1 =>
            /\ (side' = 0) <=> (mapX' # mapX /\ mapY' = mapY)
            /\ (side' = 1) <=> (mapY' # mapY /\ mapX' = mapX)]_vars

\* a diagonal ray has crossed several cells and ended on a Wall cell inside
\* the map with a step along Y
C23_Witness ==
    /\ rpc = "hit"
    /\ side = 1
    /\ rsteps > 2
    /\ rayDirX # 0
    /\ rayDirY # 0
    /\ InMap(mapX, mapY)
    /\ mapX # ToInt(posX)

\* (x * 13 + y * 17) % 100 < 3
WaterSpot(x, y) == ((x * 13 + y * 17) % 100) \in {0, 1, 2}

\* C24: the water pass turns a cell to Water exactly when it was Grass
\* after the last smoothing pass and (x*13 + y*17) % 100 < 3; every other
\* cell, and so every Trees cell, is left as it was.
C24_WaterOnlyOnGrass ==
    [][(gpc = "smooth" /\ gpc' = "spawn") =>
        \A y \in YS, x \in XS :
            /\ (grid'[y][x] = "Water") <=> (grid[y][x] = "Grass" /\ WaterSpot(x, y))
            /\ grid[y][x] = "Trees" => grid'[y][x] = "Trees"
            /\ grid'[y][x] # "Water" => grid'[y][x] = grid[y][x]]_vars

\* generateWorld has returned a grid with a Water cell and with a Trees
\* cell at a position whose water chance is below 3
C24_Witness ==
    /\ gpc = "spawn"
    /\ \E y \in YS, x \in XS : grid[y][x] = "Water"
    /\ \E y \in YS, x \in XS : grid[y][x] = "Trees" /\ WaterSpot(x, y)

\* C25: the wall distance of a column, once computed, is at least 0.1 of a
\* cell in every raycaster, so it is never zero or negative.
C25_DistanceClamped ==
    rpc = "drawn" =>
        /\ perpWallDist[2] > 0
        /\ 10 * perpWallDist[1] >= Scale * perpWallDist[2]

\* the simulationSteps loop has ended and the water pass has not run
SmoothingOver == gpc = "smooth" /\ gi = simulationSteps

\* the solid neighbours of (x, y) in the grid
SolidCount(x, y) ==
    Cardinality({n \in ((x - 1) .. (x + 1)) \X ((y - 1) .. (y + 1)) :
        /\ n # <<x, y>>
        /\ (n[1] \notin XS \/ n[2] \notin YS \/ grid[n[2]][n[1]] = "Trees")})

\* C26 as stated: after the 5 smoothing passes, one more smoothing pass
\* changes no cell whose solid-neighbour count differs from 4.
C26_SixthPassChangesNothing ==
    SmoothingOver =>
        \A y \in YS, x \in XS :
            SolidCount(x, y) # 4 => SmoothPass(grid)[y][x] = grid[y][x]

\* C26 amended: after the 5 smoothing passes, one more smoothing pass
\* changes no cell whose solid-neighbour count is exactly 4; a cell it does
\* change takes the majority value of its neighbourhood; and it changes no
\* cell at all when the fifth pass changed none.
C26_SixthPassAwayFromTie ==
    SmoothingOver =>
        LET sixth == SmoothPass(grid)
        IN  /\ \A y \in YS, x \in XS :
                 /\ SolidCount(x, y) = 4 => sixth[y][x] = grid[y][x]
                 /\ sixth[y][x] # grid[y][x] =>
                       sixth[y][x] = (IF SolidCount(x, y) > 4 THEN "Trees" ELSE "Grass")
            /\ grid = passStart => sixth = grid

\* the 5 passes are over, a cell has exactly 4 solid neighbours, and a
\* sixth pass would still change some other cell
C26_Witness ==
    /\ SmoothingOver
    /\ \E y \in YS, x \in XS : SolidCount(x, y) = 4
    /\ SmoothPass(grid) # grid

\* C27: after generateDungeon, in every dungeon variant, every cell of the
\* outer boundary of the map (row 0, row MAP_HEIGHT - 1, column 0, column
\* MAP_WIDTH - 1) is Wall: no room and no widened corridor carves it.
OnBoundary(x, y) == x = 0 \/ y = 0 \/ x = MAP_WIDTH - 1 \/ y = MAP_HEIGHT - 1

C27_BoundaryIsWall ==
    dpc = "done" =>
        \A y \in 0 .. (MAP_HEIGHT - 1) : \A x \in 0 .. (MAP_WIDTH - 1) :
            OnBoundary(x, y) => map[y][x] = "Wall"

\* a finished dungeon whose carving reaches the cells next to the boundary
C27_Witness ==
    /\ dpc = "done"
    /\ \E y \in 0 .. (MAP_HEIGHT - 1) : map[y][MAP_WIDTH - 2] = "Empty"
    /\ \E x \in 0 .. (MAP_WIDTH - 1) : map[MAP_HEIGHT - 2][x] = "Empty"

\* the tile the renderer draws under world coordinate c: tile t covers
\* [t * TILE_SIZE, (t + 1) * TILE_SIZE), and is drawn as the wrapped tile
DrawnTile(c, size) == wrapped(c \div TILE_SIZE, size)

\* C28: for every bullet position, negative world coordinates included, the
\* wrapped tile the bullet-removal test looks up is the wrapped tile drawn
\* under that position.
C28_BulletTileIsDrawnTile ==
    bul.alive =>
        /\ bwrap[3] = DrawnTile(bul.x, WORLD_WIDTH)
        /\ bwrap[4] = DrawnTile(bul.y, WORLD_HEIGHT)

\* a state update in which an enemy attack stored a health of 0 or below
AttackWasFatal == Len(struck') > 0 /\ struck'[Len(struck')] <= 0

\* C29: in main_complete Victory and GameOver are absorbing: they are
\* entered only from Playing, Victory only when there is at least one enemy
\* and every enemy is inactive, GameOver only when an enemy attack brings
\* player.health to 0 or below; no event and no update moves the game from
\* them back to Title or Playing.
C29_EndStatesAbsorbing ==
    [][/\ (gameState \in {"Victory", "GameOver"} => gameState' = gameState)
       /\ (gameState' = "Victory" /\ gameState # "Victory" =>
              /\ gameState = "Playing"
              /\ Len(enemies) > 0
              /\ allEnemiesDead(enemies))
       /\ (gameState' = "GameOver" /\ gameState # "GameOver" =>
              /\ gameState = "Playing"
              /\ AttackWasFatal)]_vars

\* the game is over, the window still open and the event loop polling
C29_Witness ==
    /\ gameState = "GameOver"
    /\ struck # <<>>
    /\ windowOpen
    /\ mpc = "events"

\* a frame of the Playing state whose collision loop applied damage that
\* left player.health at 0 or below
FatalHit == tdpc = "update" /\ tdHit' /\ AfterHit(tdHealth) <= 0

\* C30: in the top-down game player.health is within 0..100 in every
\* reachable state; the state becomes GameOver exactly when a hit brings
\* health to 0 or below, and health is then stored as 0; once the state is
\* GameOver it never returns to Playing or Loading.
C30_HealthAndGameOver ==
    /\ [](tdHealth \in 0 .. StartHealth)
    /\ [][/\ (tdGameState' = "GameOver" /\ tdGameState # "GameOver") <=> FatalHit
          /\ (FatalHit => tdHealth' = 0 /\ tdGameState = "Playing")
          /\ (tdGameState = "GameOver" => tdGameState' = "GameOver")]_vars

\* the player died: GameOver with health 0, the event loop polling
C30_Witness ==
    /\ tdGameState = "GameOver"
    /\ tdHealth = 0
    /\ tdHit
    /\ tdWindowOpen
    /\ tdpc = "events"

====
